---- MODULE Spec2Model ----
(***************************************************************************)
(* Model of the email parser: the strategy registry and factory, the       *)
(* EmailParser entry point, the rule-based and hybrid extraction pipeline, *)
(* the two LLM-backed strategies and the schema validator.                 *)
(*                                                                         *)
(* A Python string is modelled as a sequence of symbols; its value is the  *)
(* concatenation of the symbols.  A symbol is a single character (digits,  *)
(* punctuation, blank, newline) or a word that no pattern of the program   *)
(* looks inside (a label, a header, a name).  A text is the sequence of    *)
(* its lines (the result of str.splitlines).                               *)
(*                                                                         *)
(* A JSON / Python value is a tagged record [t |-> type, v |-> value], so  *)
(* that the schema validator inspects types as jsonschema does.            *)
(***************************************************************************)
EXTENDS Integers, Sequences, FiniteSets, TLC

(***************************************************************************)
(* JSON values                                                             *)
(***************************************************************************)
JStr(s)  == [t |-> "string",  v |-> s]
JBool(b) == [t |-> "boolean", v |-> b]
JArr(xs) == [t |-> "array",   v |-> xs]
JObj(m)  == [t |-> "object",  v |-> m]

EmptyDict == [k \in {} |-> JBool(FALSE)]

\* dict.update(e) on the key -> value maps of two dicts
DictUpdate(d, e) ==
    [k \in (DOMAIN d) \cup (DOMAIN e) |-> IF k \in DOMAIN e THEN e[k] ELSE d[k]]

\* The sentinel string
NA == <<"N/A">>

(***************************************************************************)
(* Constants for repeated strings                                          *)
(***************************************************************************)
REQUESTING_PARTY       == "Requesting Party"
INSURED_INFORMATION    == "Insured Information"
ADJUSTER_INFORMATION   == "Adjuster Information"
ASSIGNMENT_INFORMATION == "Assignment Information"
ASSIGNMENT_TYPE        == "Assignment Type"
ADDITIONAL_DETAILS     == "Additional details/Special Instructions"
ATTACHMENTS            == "Attachment(s)"
CARRIER_CLAIM_NUMBER   == "Carrier Claim Number"
OWNER_OR_TENANT        == "Owner or Tenant"
ADJUSTER_PHONE_NUMBER  == "Adjuster Phone Number"
ADJUSTER_EMAIL         == "Adjuster Email"
POLICY_NUMBER          == "Policy #"
DATE_OF_LOSS           == "Date of Loss/Occurrence"
RESIDENCE_OCCUPIED_DURING_LOSS == "Residence Occupied During Loss"
WAS_SOMEONE_HOME       == "Was Someone home at time of damage"

(***************************************************************************)
(* The record schema and the schema validator                              *)
(***************************************************************************)
\* "required" lists of assignment_schema; every listed property of the four
\* field sections is {"type": "string"}
SchemaFields ==
    [s \in {REQUESTING_PARTY, INSURED_INFORMATION, ADJUSTER_INFORMATION,
            ASSIGNMENT_INFORMATION} |->
        CASE s = REQUESTING_PARTY ->
                {"Insurance Company", "Handler", CARRIER_CLAIM_NUMBER}
          [] s = INSURED_INFORMATION ->
                {"Name", "Contact #", "Loss Address", "Public Adjuster",
                 OWNER_OR_TENANT}
          [] s = ADJUSTER_INFORMATION ->
                {"Adjuster Name", ADJUSTER_PHONE_NUMBER, ADJUSTER_EMAIL,
                 "Job Title", "Address", POLICY_NUMBER}
          [] s = ASSIGNMENT_INFORMATION ->
                {DATE_OF_LOSS, "Cause of loss", "Facts of Loss",
                 "Loss Description", RESIDENCE_OCCUPIED_DURING_LOSS,
                 WAS_SOMEONE_HOME, "Repair or Mitigation Progress", "Type",
                 "Inspection type"}]

SchemaFlags == {"Wind", "Structural", "Hail", "Foundation"}

SchemaRequired ==
    {REQUESTING_PARTY, INSURED_INFORMATION, ADJUSTER_INFORMATION,
     ASSIGNMENT_INFORMATION, ASSIGNMENT_TYPE, ADDITIONAL_DETAILS,
     ATTACHMENTS, "Entities"}

\* {"type": "array", "items": {"type": "string"}}
ValidStringArray(x) ==
    /\ x.t = "array"
    /\ \A i \in DOMAIN x.v : x.v[i].t = "string"

\* an object whose required properties are all strings
ValidFieldSection(x, fields) ==
    /\ x.t = "object"
    /\ \A f \in fields : f \in DOMAIN x.v /\ x.v[f].t = "string"

ValidOther(x) ==
    /\ x.t = "object"
    /\ "Checked" \in DOMAIN x.v /\ x.v["Checked"].t = "boolean"
    /\ "Details" \in DOMAIN x.v /\ x.v["Details"].t = "string"

ValidAssignmentType(x) ==
    /\ x.t = "object"
    /\ \A f \in SchemaFlags : f \in DOMAIN x.v /\ x.v[f].t = "boolean"
    /\ "Other" \in DOMAIN x.v /\ ValidOther(x.v["Other"])

\* "additionalProperties": arrays of strings
ValidEntities(x) ==
    /\ x.t = "object"
    /\ \A k \in DOMAIN x.v : ValidStringArray(x.v[k])

\* jsonschema.validate(instance, assignment_schema): TRUE for (True, ""),
\* FALSE for (False, err.message)
assignment_schema(d) ==
    /\ d.t = "object"
    /\ \A k \in SchemaRequired : k \in DOMAIN d.v
    /\ \A s \in DOMAIN SchemaFields : ValidFieldSection(d.v[s], SchemaFields[s])
    /\ ValidAssignmentType(d.v[ASSIGNMENT_TYPE])
    /\ d.v[ADDITIONAL_DETAILS].t = "string"
    /\ ValidStringArray(d.v[ATTACHMENTS])
    /\ ValidEntities(d.v["Entities"])

validate_json(parsed_data) == assignment_schema(parsed_data)

(***************************************************************************)
(* Strings as sequences of symbols                                         *)
(***************************************************************************)
WS     == {" ", "\n"}
Digits == {"0", "1", "2", "3", "4", "5", "6", "7", "8", "9"}

\* str.lower() of the symbols that contain upper-case letters; every other
\* symbol of the model is its own lower-case form
LowerTable ==
    [tok \in {REQUESTING_PARTY, INSURED_INFORMATION, ADJUSTER_INFORMATION,
              ASSIGNMENT_INFORMATION, ASSIGNMENT_TYPE, ADDITIONAL_DETAILS,
              ATTACHMENTS, "REQUESTING PARTY", "Claim Summary",
              "Insurance Company", "Handler", CARRIER_CLAIM_NUMBER,
              "Claim Number", "Policy Number",
              "Name", "Contact #", "Loss Address", "Public Adjuster",
              "Is the insured an Owner or a Tenant of the loss location?",
              "Adjuster Name", ADJUSTER_PHONE_NUMBER, ADJUSTER_EMAIL,
              "Job Title", "Address", POLICY_NUMBER,
              DATE_OF_LOSS, "Date of Loss", "Cause of loss", "Facts of Loss",
              "Loss Description", RESIDENCE_OCCUPIED_DURING_LOSS,
              WAS_SOMEONE_HOME, "Repair or Mitigation Progress", "Type",
              "Inspection type", "Wind", "Structural", "Hail", "Foundation",
              "Other", "Provide Details",
              "Yes", "YES", "No", "NO", "Owner", "Tenant", "X", "N/A",
              "Bob", "Acme", "ABC123", "Bob@Acme.com", "A.PDF", "Nobody",
              "March", "Mar", "Downwind"} |->
        CASE tok = REQUESTING_PARTY       -> "requesting party"
          [] tok = "REQUESTING PARTY"     -> "requesting party"
          [] tok = INSURED_INFORMATION    -> "insured information"
          [] tok = ADJUSTER_INFORMATION   -> "adjuster information"
          [] tok = ASSIGNMENT_INFORMATION -> "assignment information"
          [] tok = ASSIGNMENT_TYPE        -> "assignment type"
          [] tok = ADDITIONAL_DETAILS     -> "additional details/special instructions"
          [] tok = ATTACHMENTS            -> "attachment(s)"
          [] tok = "Claim Summary"        -> "claim summary"
          [] tok = "Insurance Company"    -> "insurance company"
          [] tok = "Handler"              -> "handler"
          [] tok = CARRIER_CLAIM_NUMBER   -> "carrier claim number"
          [] tok = "Claim Number"         -> "claim number"
          [] tok = "Policy Number"        -> "policy number"
          [] tok = "Name"                 -> "name"
          [] tok = "Contact #"            -> "contact #"
          [] tok = "Loss Address"         -> "loss address"
          [] tok = "Public Adjuster"      -> "public adjuster"
          [] tok = "Is the insured an Owner or a Tenant of the loss location?"
                 -> "is the insured an owner or a tenant of the loss location?"
          [] tok = "Adjuster Name"        -> "adjuster name"
          [] tok = ADJUSTER_PHONE_NUMBER  -> "adjuster phone number"
          [] tok = ADJUSTER_EMAIL         -> "adjuster email"
          [] tok = "Job Title"            -> "job title"
          [] tok = "Address"              -> "address"
          [] tok = POLICY_NUMBER          -> "policy #"
          [] tok = DATE_OF_LOSS           -> "date of loss/occurrence"
          [] tok = "Date of Loss"         -> "date of loss"
          [] tok = "Cause of loss"        -> "cause of loss"
          [] tok = "Facts of Loss"        -> "facts of loss"
          [] tok = "Loss Description"     -> "loss description"
          [] tok = RESIDENCE_OCCUPIED_DURING_LOSS
                 -> "residence occupied during loss"
          [] tok = WAS_SOMEONE_HOME       -> "was someone home at time of damage"
          [] tok = "Repair or Mitigation Progress"
                 -> "repair or mitigation progress"
          [] tok = "Type"                 -> "type"
          [] tok = "Inspection type"      -> "inspection type"
          [] tok = "Wind"                 -> "wind"
          [] tok = "Structural"           -> "structural"
          [] tok = "Hail"                 -> "hail"
          [] tok = "Foundation"           -> "foundation"
          [] tok = "Other"                -> "other"
          [] tok = "Provide Details"      -> "provide details"
          [] tok = "Yes"                  -> "yes"
          [] tok = "YES"                  -> "yes"
          [] tok = "No"                   -> "no"
          [] tok = "NO"                   -> "no"
          [] tok = "Owner"                -> "owner"
          [] tok = "Tenant"               -> "tenant"
          [] tok = "X"                    -> "x"
          [] tok = "N/A"                  -> "n/a"
          [] tok = "Bob"                  -> "bob"
          [] tok = "Acme"                 -> "acme"
          [] tok = "ABC123"               -> "abc123"
          [] tok = "Bob@Acme.com"         -> "bob@acme.com"
          [] tok = "A.PDF"                -> "a.pdf"
          [] tok = "Nobody"               -> "nobody"
          [] tok = "March"                -> "march"
          [] tok = "Mar"                  -> "mar"
          [] tok = "Downwind"             -> "downwind"]

Lower(tok) == IF tok \in DOMAIN LowerTable THEN LowerTable[tok] ELSE tok

\* str.lower()
LowerStr(s) == [i \in DOMAIN s |-> Lower(s[i])]

\* str.capitalize() of the one-word values it is applied to
Capitalize(s) ==
    LET l == LowerStr(s)
    IN  CASE l = <<"yes">>    -> <<"Yes">>
          [] l = <<"no">>     -> <<"No">>
          [] l = <<"owner">>  -> <<"Owner">>
          [] l = <<"tenant">> -> <<"Tenant">>
          [] OTHER            -> s

MinOf(S) == CHOOSE x \in S : \A y \in S : x <= y
MaxOf(S) == CHOOSE x \in S : \A y \in S : x >= y

\* str.strip()
Strip(s) ==
    LET keep == {i \in DOMAIN s : s[i] \notin WS}
    IN  IF keep = {} THEN <<>> ELSE SubSeq(s, MinOf(keep), MaxOf(keep))

\* "\n".join(lines)
RECURSIVE Join(_)
Join(lines) ==
    IF lines = <<>> THEN <<>>
    ELSE IF Len(lines) = 1 THEN lines[1]
    ELSE lines[1] \o <<"\n">> \o Join(Tail(lines))

\* position of the first symbol at or after i that is not white space
\* (Len(s) + 1 when there is none): what \s* consumes
SkipWS(s, i) ==
    CHOOSE j \in i..(Len(s) + 1) :
        /\ \A k \in i..(j - 1) : s[k] \in WS
        /\ j = Len(s) + 1 \/ s[j] \notin WS

\* number of consecutive symbols of class C starting at position i
RunLen(s, i, C) ==
    LET stop == {j \in i..(Len(s) + 1) : j = Len(s) + 1 \/ s[j] \notin C}
    IN  MinOf(stop) - i

(***************************************************************************)
(* Regular expressions of default_config, compiled IGNORECASE | DOTALL     *)
(***************************************************************************)
\* A pattern is  <label> [\s*:] \s* <capture>.  labels: the lower-case forms
\* of the label text the pattern accepts; colon: whether "\s*:" follows the
\* label; kind: the shape of the capture group(s); words: the alternatives
\* of a (Yes|No|...) group.
Pat(labels, colon, kind, words) ==
    [labels |-> labels, colon |-> colon, kind |-> kind, words |-> words]

RestPat(label) == Pat({label}, TRUE, "rest", {})     \* Label\s*:\s*(.*)
BoxPat(label)  == Pat({label}, FALSE, "box", {})     \* Label\s*\[\s*([xX])\s*\]

\* re.search starts a match anywhere, also inside a word: the labels (in
\* lower case) that a symbol ends with, besides itself
LabelSuffixes(l) ==
    {l} \cup (CASE l = "adjuster name"        -> {"name"}
                [] l = "loss address"         -> {"address"}
                [] l = "inspection type"      -> {"type"}
                [] l = "assignment type"      -> {"type"}
                [] l = "carrier claim number" -> {"claim number"}
                [] l = "downwind"             -> {"wind"}
                [] OTHER                      -> {})

\* the leading \w+ of a symbol ("" when the symbol starts with another
\* character); a symbol that is a word throughout is its own prefix
WordPrefix(tok) ==
    CASE tok \in Digits \cup {"x", "X", "Bob", "Acme", "ABC123", "Yes", "YES",
                              "No", "NO", "no", "yes", "maybe", "Owner", "Tenant", "Handler",
                              "yesterday", "Nobody", "y", "n", "true", "false",
                              "Name", "Address", "Type", "Wind", "Structural",
                              "Hail", "Foundation", "Other", "N"} -> tok
      [] tok \in {"Insurance Company"}                   -> "Insurance"
      [] tok \in {CARRIER_CLAIM_NUMBER}                  -> "Carrier"
      [] tok \in {"Job Title"}                           -> "Job"
      [] tok \in {"Adjuster Name", ADJUSTER_PHONE_NUMBER,
                  ADJUSTER_EMAIL}                        -> "Adjuster"
      [] tok \in {POLICY_NUMBER, "Policy Number"}        -> "Policy"
      [] tok = "Bob@Acme.com"                            -> "Bob"
      [] tok = "bob@acme.com"                            -> "bob"
      [] tok \in {"a.pdf", "A.PDF", "a.txt"}             -> "a"
      [] tok = "N/A"                                     -> "N"
      [] OTHER                                           -> ""

IsWord(tok) == tok # "" /\ WordPrefix(tok) = tok

\* symbols matching [\w\.-]+@[\w\.-]+\.\w+ as a whole
EmailSymbols == {"Bob@Acme.com", "bob@acme.com"}

\* [\d\s\-().]
PhoneClass == Digits \cup WS \cup {"-", "(", ")", "."}

NoMatch == [found |-> FALSE, g1 |-> <<>>, g2 |-> <<>>]
Match(a, b) == [found |-> TRUE, g1 |-> a, g2 |-> b]

\* (\+?\d[\d\s\-().]{7,}\d) at position st
CapturePhone(s, st) ==
    LET p    == IF st <= Len(s) /\ s[st] = "+" THEN st + 1 ELSE st
        q    == p + RunLen(s, p + 1, PhoneClass)
        ends == {e \in (p + 8)..q : s[e] \in Digits}
    IN  IF p <= Len(s) /\ s[p] \in Digits /\ ends # {}
        THEN Match(SubSeq(s, st, MaxOf(ends)), <<>>)
        ELSE NoMatch

\* (\d{1,2}[/-]\d{1,2}[/-]\d{2,4}) at position st
CaptureDate(s, st) ==
    LET n1 == RunLen(s, st, Digits)
        s1 == st + n1
        n2 == RunLen(s, s1 + 1, Digits)
        s2 == s1 + 1 + n2
        n3 == RunLen(s, s2 + 1, Digits)
        e  == s2 + (IF n3 > 4 THEN 4 ELSE n3)
    IN  IF /\ n1 \in 1..2 /\ s1 <= Len(s) /\ s[s1] \in {"/", "-"}
           /\ n2 \in 1..2 /\ s2 <= Len(s) /\ s[s2] \in {"/", "-"}
           /\ n3 >= 2
        THEN Match(SubSeq(s, st, e), <<>>)
        ELSE NoMatch

\* (\w+) at position st: the word symbols from st on, closed by the word
\* prefix of the first symbol that is not a word throughout
CaptureWord(s, st) ==
    LET n    == RunLen(s, st, {tok \in {s[i] : i \in DOMAIN s} : IsWord(tok)})
        e    == st + n
        tail == IF e <= Len(s) /\ WordPrefix(s[e]) # ""
                THEN <<WordPrefix(s[e])>> ELSE <<>>
        g    == SubSeq(s, st, e - 1) \o tail
    IN  IF g # <<>> THEN Match(g, <<>>) ELSE NoMatch

\* \[\s*([xX])\s*\] at position st; the position after "]" or 0
BoxEnd(s, st) ==
    LET i2 == SkipWS(s, st + 1)
        i3 == SkipWS(s, i2 + 1)
    IN  IF /\ st <= Len(s) /\ s[st] = "["
           /\ i2 <= Len(s) /\ s[i2] \in {"x", "X"}
           /\ i3 <= Len(s) /\ s[i3] = "]"
        THEN i3 + 1 ELSE 0

\* \[\s*([xX])\s*\]\s*-\s*provide details\s*:\s*(.*) at position st
CaptureOther(s, st) ==
    LET b  == BoxEnd(s, st)
        i1 == SkipWS(s, b)
        i2 == SkipWS(s, i1 + 1)
        i3 == SkipWS(s, i2 + 1)
        i4 == SkipWS(s, i3 + 1)
    IN  IF /\ b # 0
           /\ i1 <= Len(s) /\ s[i1] = "-"
           /\ i2 <= Len(s) /\ Lower(s[i2]) = "provide details"
           /\ i3 <= Len(s) /\ s[i3] = ":"
        THEN Match(<<s[SkipWS(s, st + 1)]>>, SubSeq(s, i4, Len(s)))
        ELSE NoMatch

\* the letters a symbol starts with that can match an alternative of a
\* (Yes|No|...) group: the group is not anchored at the end, so it also
\* matches the start of a longer word
AlternativeStart(tok) ==
    CASE tok = "yesterday" -> "yes"
      [] tok = "Nobody"    -> "No"
      [] OTHER             -> tok

\* (Yes|No|...) at position st
CaptureAlternative(p, s, st) ==
    IF st <= Len(s) /\ Lower(AlternativeStart(s[st])) \in p.words
    THEN Match(<<AlternativeStart(s[st])>>, <<>>) ELSE NoMatch

\* variant of RestEnd for patterns compiled without re.DOTALL: (.*) stops
\* at the end of the line
RestEnd_one_line(s, st) ==
    st + RunLen(s, st, {s[i] : i \in DOMAIN s} \ {"\n"}) - 1

\* where a (.*) that starts at position st ends: patterns are compiled
\* with re.DOTALL, so "." also matches "\n" and the group runs to the end
RestEnd(s, st) == Len(s)

\* the capture group(s) of pattern p at position st of s
Capture(p, s, st) ==
    CASE p.kind = "rest"  -> Match(SubSeq(s, st, RestEnd(s, st)), <<>>)
      [] p.kind = "words" -> CaptureAlternative(p, s, st)
      [] p.kind = "phone" -> CapturePhone(s, st)
      [] p.kind = "date"  -> CaptureDate(s, st)
      [] p.kind = "email" -> IF st <= Len(s) /\ s[st] \in EmailSymbols
                             THEN Match(<<s[st]>>, <<>>) ELSE NoMatch
      [] p.kind = "word"  -> CaptureWord(s, st)
      [] p.kind = "box"   -> IF BoxEnd(s, st) # 0
                             THEN Match(<<s[SkipWS(s, st + 1)]>>, <<>>)
                             ELSE NoMatch
      [] p.kind = "other" -> CaptureOther(s, st)

\* position where the capture of p starts when its label matches at symbol
\* i of s, or 0
AfterLabel(p, s, i) ==
    IF LabelSuffixes(Lower(s[i])) \cap p.labels = {} THEN 0
    ELSE IF ~p.colon THEN SkipWS(s, i + 1)
    ELSE LET c == SkipWS(s, i + 1)
         IN  IF c <= Len(s) /\ s[c] = ":" THEN SkipWS(s, c + 1) ELSE 0

MatchAt(p, s, i) ==
    LET st == AfterLabel(p, s, i)
    IN  IF st = 0 THEN NoMatch ELSE Capture(p, s, st)

\* pattern.search(text): the leftmost match
Search(p, s) ==
    LET hits == {i \in DOMAIN s : MatchAt(p, s, i).found}
    IN  IF hits = {} THEN NoMatch ELSE MatchAt(p, s, MinOf(hits))

(***************************************************************************)
(* Normalizers: format_phone_number and parse_date                         *)
(***************************************************************************)
\* re.sub(r"\D", "", phone)
DigitsOf(s) == SelectSeq(s, LAMBDA c : c \in Digits)

\* variant of format_phone_number: the number is returned as written
format_phone_number_asis(phone) == phone

format_phone_number(phone) ==
    LET digits == DigitsOf(phone)
    IN  IF Len(digits) = 10
        THEN <<"(">> \o SubSeq(digits, 1, 3) \o <<")", " ">>
             \o SubSeq(digits, 4, 6) \o <<"-">> \o SubSeq(digits, 7, 10)
        ELSE IF Len(digits) = 11 /\ digits[1] = "1"
        THEN <<"+", "1", " ", "(">> \o SubSeq(digits, 2, 4) \o <<")", " ">>
             \o SubSeq(digits, 5, 7) \o <<"-">> \o SubSeq(digits, 8, 11)
        ELSE phone

DigitSym == <<"0", "1", "2", "3", "4", "5", "6", "7", "8", "9">>
DigitVal(c) == CHOOSE n \in 0..9 : DigitSym[n + 1] = c

\* int() of a run of digit symbols (a leading blank of %d is skipped)
RECURSIVE ToNum(_)
ToNum(ds) ==
    IF ds = <<>> THEN 0
    ELSE IF ds[Len(ds)] \notin Digits THEN 0
    ELSE 10 * ToNum(SubSeq(ds, 1, Len(ds) - 1)) + DigitVal(ds[Len(ds)])

\* the decimal digits of n, zero-padded to at least width symbols
RECURSIVE ToDigits(_, _)
ToDigits(n, width) ==
    IF n < 10 /\ width <= 1 THEN <<DigitSym[n + 1]>>
    ELSE ToDigits(n \div 10, width - 1) \o <<DigitSym[(n % 10) + 1]>>

MonthNames ==
    <<"january", "february", "march", "april", "may", "june", "july",
      "august", "september", "october", "november", "december">>
MonthAbbrs ==
    <<"jan", "feb", "mar", "apr", "may", "jun", "jul", "aug", "sep", "oct",
      "nov", "dec">>
SeqRange(q) == {q[i] : i \in DOMAIN q}

D19 == Digits \ {"0"}

\* the regular expression _strptime builds for a directive: its alternatives
\* in order, each a sequence of symbol classes; any other symbol of a format
\* is a literal
DirectiveAlts(d) ==
    CASE d = "%d" -> << <<{"3"}, {"0", "1"}>>, <<{"1", "2"}, Digits>>,
                        <<{"0"}, D19>>, <<D19>>, <<{" "}, D19>> >>
      [] d = "%m" -> << <<{"1"}, {"0", "1", "2"}>>, <<{"0"}, D19>>, <<D19>> >>
      [] d = "%Y" -> << <<Digits, Digits, Digits, Digits>> >>
      [] d = "%H" -> << <<{"2"}, {"0", "1", "2", "3"}>>, <<{"0", "1"}, Digits>>,
                        <<Digits>> >>
      [] d = "%M" -> << <<{"0", "1", "2", "3", "4", "5"}, Digits>>, <<Digits>> >>
      [] d = "%S" -> << <<{"6"}, {"0", "1"}>>,
                        <<{"0", "1", "2", "3", "4", "5"}, Digits>>, <<Digits>> >>
      [] d = "%f" -> << <<Digits, Digits, Digits, Digits, Digits, Digits>>,
                        <<Digits, Digits, Digits, Digits, Digits>>,
                        <<Digits, Digits, Digits, Digits>>,
                        <<Digits, Digits, Digits>>, <<Digits, Digits>>,
                        <<Digits>> >>
      [] d = "%B" -> << <<SeqRange(MonthNames)>> >>
      [] d = "%b" -> << <<SeqRange(MonthAbbrs)>> >>
      [] d = " "  -> << <<WS, WS>>, <<WS>> >>
      [] OTHER    -> << <<{d, Lower(d)}>> >>

\* "%-d": '-' is a bad directive, strptime raises ValueError
BadDirectives == {"%-d"}

AltFits(alt, s, i) ==
    /\ i + Len(alt) - 1 <= Len(s)
    /\ \A k \in 1..Len(alt) :
          s[i + k - 1] \in alt[k] \/ Lower(s[i + k - 1]) \in alt[k]

StrpFail == [ok |-> FALSE, end |-> 0, vals |-> <<>>]

\* format_regex.match(data_string): the first way, in the order of the
\* alternatives, to match the directives fmt[j..] from position i of s
RECURSIVE StrpMatch(_, _, _, _), StrpTry(_, _, _, _, _)
StrpMatch(s, i, fmt, j) ==
    IF j > Len(fmt) THEN [ok |-> TRUE, end |-> i, vals |-> <<>>]
    ELSE StrpTry(s, i, fmt, j, 1)

StrpTry(s, i, fmt, j, k) ==
    LET alts == DirectiveAlts(fmt[j])
    IN  IF k > Len(alts) THEN StrpFail
        ELSE IF ~AltFits(alts[k], s, i) THEN StrpTry(s, i, fmt, j, k + 1)
        ELSE LET n == Len(alts[k])
                 r == StrpMatch(s, i + n, fmt, j + 1)
             IN  IF r.ok
                 THEN [r EXCEPT !.vals =
                          <<[d |-> fmt[j], v |-> SubSeq(s, i, i + n - 1)]>> \o @]
                 ELSE StrpTry(s, i, fmt, j, k + 1)

IsLeap(y) == (y % 4 = 0 /\ y % 100 # 0) \/ y % 400 = 0
DaysIn(y, m) ==
    IF m = 2 THEN (IF IsLeap(y) THEN 29 ELSE 28)
    ELSE IF m \in {4, 6, 9, 11} THEN 30 ELSE 31

IndexOf(q, x) == CHOOSE i \in DOMAIN q : q[i] = x

\* the fields of a match r of fmt against date_str, range-checked
StrpResult(r, date_str, fmt) ==
    LET val(d, dflt) ==
            LET hit == {i \in DOMAIN r.vals : r.vals[i].d = d}
            IN  IF hit = {} THEN dflt ELSE ToNum(r.vals[MinOf(hit)].v)
        mon(d, names) ==
            LET hit == {i \in DOMAIN r.vals : r.vals[i].d = d}
            IN  IF hit = {} THEN 0
                ELSE IndexOf(names, Lower(r.vals[MinOf(hit)].v[1]))
        y == val("%Y", 1900)
        m == IF mon("%B", MonthNames) # 0 THEN mon("%B", MonthNames)
             ELSE IF mon("%b", MonthAbbrs) # 0 THEN mon("%b", MonthAbbrs)
             ELSE val("%m", 1)
        d == val("%d", 1)
    IN  IF /\ SeqRange(fmt) \cap BadDirectives = {}
           /\ r.ok
           /\ r.end = Len(date_str) + 1      \* else: unconverted data remains
           /\ y >= 1 /\ d <= DaysIn(y, m)    \* else: out of range
        THEN [ok |-> TRUE, y |-> y, m |-> m, d |-> d]
        ELSE [ok |-> FALSE, y |-> 0, m |-> 0, d |-> 0]

\* datetime.strptime(date_str, fmt): [ok |-> FALSE] stands for ValueError
strptime(date_str, fmt) ==
    StrpResult(StrpMatch(date_str, 1, fmt, 1), date_str, fmt)

\* variant of strftime: the date written day first, as "%d/%m/%Y"
strftime_day_first(t) ==
    ToDigits(t.d, 2) \o <<"/">> \o ToDigits(t.m, 2) \o <<"/">> \o ToDigits(t.y, 4)

\* date_obj.strftime("%Y-%m-%d"); the C library's %Y does not pad the year
strftime(t) ==
    ToDigits(t.y, 1) \o <<"-">> \o ToDigits(t.m, 2) \o <<"-">> \o ToDigits(t.d, 2)

\* "date_formats" of default_config
date_formats ==
    << <<"%m", "/", "%d", "/", "%Y">>,
       <<"%d", "/", "%m", "/", "%Y">>,
       <<"%Y", "-", "%m", "-", "%d">>,
       <<"%B", " ", "%d", ",", " ", "%Y">>,
       <<"%b", " ", "%d", ",", " ", "%Y">>,
       <<"%d", " ", "%B", " ", "%Y">>,
       <<"%d", " ", "%b", " ", "%Y">>,
       <<"%Y", "/", "%m", "/", "%d">>,
       <<"%d", "-", "%m", "-", "%Y">>,
       <<"%Y", ".", "%m", ".", "%d">>,
       <<"%d", ".", "%m", ".", "%Y">>,
       <<"%m", "-", "%d", "-", "%Y">>,
       <<"%Y", "%m", "%d">>,
       <<"%B", " ", "%-d", ",", " ", "%Y">>,
       <<"%b", " ", "%-d", ",", " ", "%Y">>,
       <<"%Y", "-", "%m", "-", "%d", "T", "%H", ":", "%M", ":", "%S">>,
       <<"%Y", "-", "%m", "-", "%d", "T", "%H", ":", "%M", ":", "%S", ".",
         "%f", "Z">> >>

\* "for fmt in self.date_formats: try ... except ValueError: continue",
\* from the i-th format on; the text itself when no format parses it
RECURSIVE TryFormats(_, _)
FormatOrNext(date_obj, date_str, i) ==
    IF date_obj.ok THEN strftime(date_obj) ELSE TryFormats(date_str, i + 1)

TryFormats(date_str, i) ==
    IF i > Len(date_formats) THEN date_str
    ELSE FormatOrNext(strptime(date_str, date_formats[i]), date_str, i)

parse_date(date_str) == TryFormats(date_str, 1)

(***************************************************************************)
(* default_config: section headers and patterns                            *)
(***************************************************************************)
\* "section_headers" of default_config, in order
section_headers ==
    <<REQUESTING_PARTY, INSURED_INFORMATION, ADJUSTER_INFORMATION,
      ASSIGNMENT_INFORMATION, ASSIGNMENT_TYPE, ADDITIONAL_DETAILS, ATTACHMENTS>>

\* "section_headers" of a configuration document given by config_path that
\* lists other sections than the schema's (its patterns are the default ones)
custom_section_headers == <<REQUESTING_PARTY, "Claim Summary">>

YesNoPat(label) == Pat({label}, TRUE, "words", {"yes", "no"})

\* "patterns" of default_config
patterns(section, field) ==
    CASE section = INSURED_INFORMATION /\ field = OWNER_OR_TENANT ->
            Pat({"is the insured an owner or a tenant of the loss location?"},
                FALSE, "words", {"yes", "no", "owner", "tenant"})
      [] section = ADJUSTER_INFORMATION /\ field = ADJUSTER_PHONE_NUMBER ->
            Pat({"adjuster phone number"}, TRUE, "phone", {})
      [] section = ADJUSTER_INFORMATION /\ field = ADJUSTER_EMAIL ->
            Pat({"adjuster email"}, TRUE, "email", {})
      [] section = ADJUSTER_INFORMATION /\ field = POLICY_NUMBER ->
            Pat({"policy #"}, TRUE, "word", {})
      [] section = ASSIGNMENT_INFORMATION /\ field = DATE_OF_LOSS ->
            Pat({"date of loss/occurrence"}, TRUE, "date", {})
      [] section = ASSIGNMENT_INFORMATION
           /\ field \in {RESIDENCE_OCCUPIED_DURING_LOSS, WAS_SOMEONE_HOME} ->
            YesNoPat(Lower(field))
      [] section = ASSIGNMENT_TYPE /\ field \in SchemaFlags ->
            BoxPat(Lower(field))
      [] section = ASSIGNMENT_TYPE /\ field = "Other" ->
            Pat({"other"}, FALSE, "other", {})
      [] OTHER -> RestPat(Lower(field))

\* "additional_patterns" of default_config: the (section, field) pairs that
\* have one, and the pattern
additional_fields(section) ==
    CASE section = REQUESTING_PARTY       -> {POLICY_NUMBER, CARRIER_CLAIM_NUMBER}
      [] section = ASSIGNMENT_INFORMATION -> {DATE_OF_LOSS}
      [] OTHER                            -> {}

additional_patterns(section, field) ==
    CASE field = POLICY_NUMBER        -> Pat({"policy number"}, TRUE, "word", {})
      [] field = CARRIER_CLAIM_NUMBER -> RestPat("claim number")
      [] field = DATE_OF_LOSS         ->
            Pat({"date of loss", "date of loss/occurrence"}, TRUE, "date", {})

(***************************************************************************)
(* Segmenter                                                               *)
(***************************************************************************)
None == "None"

\* an insertion-ordered dict: d[k] = v
ODSet(d, k, v) ==
    [keys |-> IF k \in DOMAIN d.map THEN d.keys ELSE Append(d.keys, k),
     map  |-> [x \in (DOMAIN d.map) \cup {k} |-> IF x = k THEN v ELSE d.map[x]]]

ODEmpty == [keys |-> <<>>, map |-> [k \in {} |-> <<>>]]

\* section_pattern.match(line) for a stripped line: ^(h1|h2|...):?\s*$,
\* IGNORECASE
header_match(line, headers) ==
    /\ line # <<>>
    /\ Lower(line[1]) \in {Lower(headers[i]) : i \in DOMAIN headers}
    /\ Len(line) = 1 \/ (Len(line) = 2 /\ line[2] = ":")

\* one iteration of "for line in lines", line being the stripped line
SplitLine(st, line, headers) ==
    IF line = <<>> THEN st
    ELSE IF header_match(line, headers)
    THEN [sections |-> ODSet(IF st.cur # None
                             THEN ODSet(st.sections, st.cur, Strip(Join(st.buf)))
                             ELSE st.sections,
                             line[1], <<>>),
          cur      |-> line[1],
          buf      |-> IF st.cur # None THEN <<>> ELSE st.buf]
    ELSE IF st.cur # None
    THEN [st EXCEPT !.buf = Append(@, line)]
    ELSE st

\* variant of SplitStep that takes the line as written
SplitStep_untrimmed(st, raw, headers) == SplitLine(st, raw, headers)

SplitStep(st, raw, headers) == SplitLine(st, Strip(raw), headers)

RECURSIVE SplitLoop(_, _, _)
SplitLoop(st, lines, headers) ==
    IF lines = <<>> THEN st
    ELSE SplitLoop(SplitStep(st, Head(lines), headers), Tail(lines), headers)

\* variant of AddMissing that adds nothing
AddMissing_none(d, headers) == d

\* "for section in self.section_headers: if section not in sections"
RECURSIVE AddMissing(_, _)
AddMissing(d, headers) ==
    IF headers = <<>> THEN d
    ELSE AddMissing(IF Head(headers) \in DOMAIN d.map THEN d
                    ELSE ODSet(d, Head(headers), <<>>),
                    Tail(headers))

\* "if current_section and section_content" after the loop
FlushLast(st) ==
    IF st.cur # None /\ st.buf # <<>>
    THEN ODSet(st.sections, st.cur, Strip(Join(st.buf)))
    ELSE st.sections

split_into_sections(email_content, headers) ==
    AddMissing(FlushLast(SplitLoop([sections |-> ODEmpty, cur |-> None, buf |-> <<>>],
                                   email_content, headers)),
               headers)

\* re.sub(r"[^\w\s]", "", text), then re.sub(r"\s+", "_", text.strip().lower())
snake_case(text) ==
    LET l == Lower(text)
    IN  CASE l = "requesting party"       -> "requesting_party"
          [] l = "insured information"    -> "insured_information"
          [] l = "adjuster information"   -> "adjuster_information"
          [] l = "assignment information" -> "assignment_information"
          [] l = "assignment type"        -> "assignment_type"
          [] l = "additional details/special instructions"
                                          -> "additional_detailsspecial_instructions"
          [] l = "attachment(s)"          -> "attachments"
          [] l = "claim summary"          -> "claim_summary"

default_section_data(section) ==
    CASE section = REQUESTING_PARTY ->
            REQUESTING_PARTY :> JObj([f \in SchemaFields[REQUESTING_PARTY] |-> JStr(NA)])
      [] section = INSURED_INFORMATION ->
            INSURED_INFORMATION :> JObj([f \in SchemaFields[INSURED_INFORMATION] |-> JStr(NA)])
      [] section = ADJUSTER_INFORMATION ->
            ADJUSTER_INFORMATION :> JObj([f \in SchemaFields[ADJUSTER_INFORMATION] |-> JStr(NA)])
      [] section = ASSIGNMENT_INFORMATION ->
            ASSIGNMENT_INFORMATION :> JObj([f \in SchemaFields[ASSIGNMENT_INFORMATION] |-> JStr(NA)])
      [] section = ASSIGNMENT_TYPE ->
            ASSIGNMENT_TYPE :>
                JObj([f \in SchemaFlags \cup {"Other"} |->
                        IF f = "Other"
                        THEN JObj([k \in {"Checked", "Details"} |->
                                     IF k = "Checked" THEN JBool(FALSE) ELSE JStr(NA)])
                        ELSE JBool(FALSE)])
      [] section = ADDITIONAL_DETAILS -> ADDITIONAL_DETAILS :> JStr(NA)
      [] section = ATTACHMENTS        -> ATTACHMENTS :> JArr(<<>>)
      [] OTHER                        -> EmptyDict

(***************************************************************************)
(* Field extractors                                                        *)
(***************************************************************************)
\* variant of OrNA that keeps an empty capture as it is
OrNA_as_is(value) == value

\* "value if value else 'N/A'"
OrNA(value) == IF value # <<>> THEN value ELSE NA

\* variant of AltValue in which the fallback pattern never matches
AltValue_none(section, key, text) == NA

\* "alt_match.group(1).strip() if alt_match else 'N/A'"
AltValue(section, key, text) ==
    LET alt_match == Search(additional_patterns(section, key), text)
    IN  IF alt_match.found THEN Strip(alt_match.g1) ELSE NA

RequestingPartyField(match, key, text) ==
    IF match.found
    THEN IF Strip(match.g1) = <<>> /\ key \in additional_fields(REQUESTING_PARTY)
         THEN OrNA(AltValue(REQUESTING_PARTY, key, text))
         ELSE OrNA(Strip(match.g1))
    ELSE IF key \in additional_fields(REQUESTING_PARTY)
         THEN OrNA(AltValue(REQUESTING_PARTY, key, text))
         ELSE NA

RequestingPartyValue(key, text) ==
    RequestingPartyField(Search(patterns(REQUESTING_PARTY, key), text), key, text)

extract_requesting_party(text) ==
    REQUESTING_PARTY :>
        JObj([key \in SchemaFields[REQUESTING_PARTY] |->
                JStr(RequestingPartyValue(key, text))])

\* "Owner or Tenant": one of yes, no, owner, tenant, capitalized
OwnerOrTenant(value) ==
    IF LowerStr(value) \in {<<"yes">>, <<"no">>, <<"owner">>, <<"tenant">>}
    THEN Capitalize(value) ELSE NA

InsuredInformationField(match, key, text) ==
    IF match.found
    THEN IF key = OWNER_OR_TENANT
         THEN OrNA(OwnerOrTenant(Strip(match.g1)))
         ELSE OrNA(Strip(match.g1))
    ELSE IF key \in additional_fields(INSURED_INFORMATION)
         THEN OrNA(AltValue(INSURED_INFORMATION, key, text))
         ELSE NA

InsuredInformationValue(key, text) ==
    InsuredInformationField(Search(patterns(INSURED_INFORMATION, key), text), key, text)

extract_insured_information(text) ==
    INSURED_INFORMATION :>
        JObj([key \in SchemaFields[INSURED_INFORMATION] |->
                JStr(InsuredInformationValue(key, text))])

AdjusterInformationField(match, key, text) ==
    IF match.found
    THEN IF key = ADJUSTER_PHONE_NUMBER
         THEN OrNA(format_phone_number(Strip(match.g1)))
         ELSE IF key = ADJUSTER_EMAIL THEN OrNA(LowerStr(Strip(match.g1)))
         ELSE OrNA(Strip(match.g1))
    ELSE IF key \in additional_fields(ADJUSTER_INFORMATION)
         THEN OrNA(AltValue(ADJUSTER_INFORMATION, key, text))
         ELSE NA

AdjusterInformationValue(key, text) ==
    AdjusterInformationField(Search(patterns(ADJUSTER_INFORMATION, key), text), key, text)

extract_adjuster_information(text) ==
    ADJUSTER_INFORMATION :>
        JObj([key \in SchemaFields[ADJUSTER_INFORMATION] |->
                JStr(AdjusterInformationValue(key, text))])

\* the configured "boolean_values", as written in the configuration
boolean_values ==
    [positive |-> {<<"yes">>, <<"y">>, <<"true">>, <<"t">>, <<"1">>, <<"x">>,
                   <<"[", "x", "]">>, <<"[", "X", "]">>,
                   <<"(", "x", ")">>, <<"(", "X", ")">>},
     negative |-> {<<"no">>, <<"n">>, <<"false">>, <<"f">>, <<"0">>,
                   <<"[", " ", "]">>, <<"(", ")">>,
                   <<"[", "N/A", "]">>, <<"(", "N/A", ")">>}]

\* parse_boolean of the draft parser: the lower-cased, stripped value looked
\* up in boolean_values
parse_boolean(value) ==
    IF Strip(LowerStr(value)) \in boolean_values.positive THEN <<"Yes">>
    ELSE IF Strip(LowerStr(value)) \in boolean_values.negative THEN <<"No">>
    ELSE NA

\* the date and yes/no handling shared by both branches
AssignmentNormalize(key, value) ==
    IF key = DATE_OF_LOSS THEN parse_date(value)
    ELSE IF key \in {RESIDENCE_OCCUPIED_DURING_LOSS, WAS_SOMEONE_HOME}
    THEN (IF LowerStr(value) \in {<<"yes">>, <<"no">>}
          THEN Capitalize(value) ELSE NA)
    ELSE value

\* the alternative branch: "value = alt_match.group(1).strip() if alt_match
\* else 'N/A'", normalized "if value" else "N/A"
AssignmentAlt(key, alt) ==
    IF alt # <<>> THEN AssignmentNormalize(key, alt) ELSE NA

AssignmentInformationField(match, key, text) ==
    IF match.found
    THEN OrNA(AssignmentNormalize(key, Strip(match.g1)))
    ELSE IF key \in additional_fields(ASSIGNMENT_INFORMATION)
         THEN AssignmentAlt(key, AltValue(ASSIGNMENT_INFORMATION, key, text))
         ELSE NA

AssignmentInformationValue(key, text) ==
    AssignmentInformationField(Search(patterns(ASSIGNMENT_INFORMATION, key), text),
                               key, text)

extract_assignment_information(text) ==
    ASSIGNMENT_INFORMATION :>
        JObj([key \in SchemaFields[ASSIGNMENT_INFORMATION] |->
                JStr(AssignmentInformationValue(key, text))])

\* "Other": the box and the details that follow it
OtherField(other) ==
    JObj([k \in {"Checked", "Details"} |->
            IF k = "Checked" THEN JBool(other.found)
            ELSE IF other.found THEN JStr(OrNA(Strip(other.g2)))
            ELSE JStr(NA)])

\* variant of extract_assignment_type: the boxes are not read
extract_assignment_type_unread(text) ==
    ASSIGNMENT_TYPE :>
        JObj([key \in SchemaFlags \cup {"Other"} |->
                IF key # "Other" THEN JBool(FALSE) ELSE OtherField(NoMatch)])

extract_assignment_type(text) ==
    ASSIGNMENT_TYPE :>
        JObj([key \in SchemaFlags \cup {"Other"} |->
                IF key # "Other"
                THEN JBool(Search(patterns(ASSIGNMENT_TYPE, key), text).found)
                ELSE OtherField(Search(patterns(ASSIGNMENT_TYPE, "Other"), text))])

AdditionalDetailsField(match) ==
    IF match.found THEN OrNA(Strip(match.g1)) ELSE NA

extract_additional_details_special_instructions(text) ==
    ADDITIONAL_DETAILS :>
        JStr(AdditionalDetailsField(
                 Search(patterns(ADDITIONAL_DETAILS, ADDITIONAL_DETAILS), text)))

\* re.split: comma, semicolon, newline, bullet, en-dash, hyphen
Delimiters == {",", ";", "\n", "<bullet>", "<en-dash>", "-"}

RECURSIVE SplitOn(_, _)
SplitOn(s, delims) ==
    LET n == RunLen(s, 1, {s[i] : i \in DOMAIN s} \ delims)
    IN  IF n = Len(s) THEN <<s>>
        ELSE <<SubSeq(s, 1, n)>> \o SplitOn(SubSeq(s, n + 2, Len(s)), delims)

\* the extension a file-name symbol ends with, in lower case
FileExtension(tok) ==
    CASE Lower(tok) = "a.pdf"  -> ".pdf"
      [] Lower(tok) = "b.docx" -> ".docx"
      [] Lower(tok) = "a.txt"  -> ".txt"
      [] OTHER                 -> ""

valid_extensions == {".pdf", ".docx", ".xlsx", ".zip", ".png", ".jpg"}

is_valid_attachment(attachment) ==
    attachment # <<>> /\ FileExtension(attachment[Len(attachment)]) \in valid_extensions

\* re.compile of url_pattern raises re.error (unbalanced parenthesis: the
\* domain alternative closes a group that the IP alternative already
\* closed), so every call raises before anything is matched
is_valid_url(attachment) == [raised |-> TRUE, value |-> FALSE]

StripAll(pieces) == [i \in DOMAIN pieces |-> Strip(pieces[i])]
NonEmpty(q) == SelectSeq(q, LAMBDA a : a # <<>>)

\* the stripped, non-empty pieces of the attachments text
Candidates(attachments) == NonEmpty(StripAll(SplitOn(attachments, Delimiters)))

\* "if self.is_valid_attachment(att) or self.is_valid_url(att)" over the
\* candidates: [raised |-> is_valid_url was reached, data |-> the list]
FilterAttachments(candidates) ==
    [raised |-> \E i \in DOMAIN candidates :
                    ~is_valid_attachment(candidates[i])
                    /\ is_valid_url(candidates[i]).raised,
     data   |-> SelectSeq(candidates,
                    LAMBDA a : is_valid_attachment(a) \/ is_valid_url(a).value)]

AttachmentsListed(match) ==
    /\ match.found
    /\ LowerStr(Strip(match.g1)) # <<"n/a">>
    /\ Strip(match.g1) # <<>>

AttachmentsResult(listed, filtered) ==
    [raised |-> listed /\ filtered.raised,
     data   |-> ATTACHMENTS :>
                  JArr(IF listed
                       THEN [i \in DOMAIN filtered.data |-> JStr(filtered.data[i])]
                       ELSE <<>>)]

AttachmentsOf(match) ==
    AttachmentsResult(AttachmentsListed(match),
                      FilterAttachments(Candidates(Strip(match.g1))))

\* variant of extract_attachments that takes the whole section text as the
\* list, label or not
extract_attachments_unlabelled(text) == AttachmentsOf(Match(text, <<>>))

\* [raised |-> an exception left extract_attachments, data |-> its result]
extract_attachments(text) ==
    AttachmentsOf(Search(patterns(ATTACHMENTS, ATTACHMENTS), text))

\* getattr(self, f"extract_{name}", None): the extract_* methods of the
\* class that take a section body
ExtractMethods ==
    {"requesting_party", "insured_information", "adjuster_information",
     "assignment_information", "assignment_type",
     "additional_details_special_instructions", "attachments"}

Returned(data) == [raised |-> FALSE, data |-> data]

extract_method(name, content) ==
    CASE name = "requesting_party"       -> Returned(extract_requesting_party(content))
      [] name = "insured_information"    -> Returned(extract_insured_information(content))
      [] name = "adjuster_information"   -> Returned(extract_adjuster_information(content))
      [] name = "assignment_information" -> Returned(extract_assignment_information(content))
      [] name = "assignment_type"        -> Returned(extract_assignment_type(content))
      [] name = "additional_details_special_instructions" ->
            Returned(extract_additional_details_special_instructions(content))
      [] name = "attachments"            -> extract_attachments(content)

(***************************************************************************)
(* RuleBasedParser.parse and HybridParser.parse                            *)
(***************************************************************************)
\* "extracted_data.update(data)", or the default on an exception
MergeSection(extracted_data, section, r) ==
    IF r.raised
    THEN DictUpdate(extracted_data, default_section_data(section))
    ELSE DictUpdate(extracted_data, r.data)

\* the body of "for section, content in sections.items()" for one section
ExtractSection(extracted_data, section, content) ==
    IF snake_case(section) \in ExtractMethods
    THEN MergeSection(extracted_data, section,
                      extract_method(snake_case(section), content))
    ELSE DictUpdate(extracted_data, default_section_data(section))

RECURSIVE ExtractSections(_, _, _)
ExtractSections(extracted_data, keys, sections) ==
    IF keys = <<>> THEN extracted_data
    ELSE ExtractSections(
             ExtractSection(extracted_data, Head(keys), sections[Head(keys)]),
             Tail(keys), sections)

\* "Ensure 'Additional details/Special Instructions' is present"
EnsureAdditionalDetails(data) ==
    IF ADDITIONAL_DETAILS \notin DOMAIN data
    THEN DictUpdate(data, default_section_data(ADDITIONAL_DETAILS))
    ELSE data

ExtractFrom(sections) == ExtractSections(EmptyDict, sections.keys, sections.map)

\* the sections loop of parse
ExtractAll(email_content, headers) ==
    EnsureAdditionalDetails(ExtractFrom(split_into_sections(email_content, headers)))

\* A configuration file may give a field a pattern without a capture group
\* (here for fields of "Requesting Party", ungrouped): "match.group(1)" then
\* raises IndexError as soon as the pattern of such a field matches
extract_method_ungrouped(name, content, ungrouped) ==
    IF /\ name = "requesting_party"
       /\ \E key \in ungrouped :
              Search(patterns(REQUESTING_PARTY, key), content).found
    THEN [raised |-> TRUE, data |-> EmptyDict]
    ELSE extract_method(name, content)

\* the sections loop of parse under such a configuration
ExtractSectionUngrouped(extracted_data, section, content, ungrouped) ==
    IF snake_case(section) \in ExtractMethods
    THEN MergeSection(extracted_data, section,
                      extract_method_ungrouped(snake_case(section), content,
                                               ungrouped))
    ELSE DictUpdate(extracted_data, default_section_data(section))

RECURSIVE ExtractSectionsUngrouped(_, _, _, _)
ExtractSectionsUngrouped(extracted_data, keys, sections, ungrouped) ==
    IF keys = <<>> THEN extracted_data
    ELSE ExtractSectionsUngrouped(
             ExtractSectionUngrouped(extracted_data, Head(keys),
                                     sections[Head(keys)], ungrouped),
             Tail(keys), sections, ungrouped)

ExtractFromUngrouped(sections, ungrouped) ==
    ExtractSectionsUngrouped(EmptyDict, sections.keys, sections.map, ungrouped)

ExtractAllUngrouped(email_content, headers, ungrouped) ==
    EnsureAdditionalDetails(
        ExtractFromUngrouped(split_into_sections(email_content, headers),
                             ungrouped))

\* doc.ents as returned by the NER collaborator: (label, text) pairs
relevant_labels == {"PERSON", "ORG", "GPE", "DATE", "PRODUCT"}

RECURSIVE Dedup(_)
Dedup(q) ==
    IF q = <<>> THEN <<>>
    ELSE LET r == Dedup(SubSeq(q, 1, Len(q) - 1))
         IN  IF q[Len(q)] \in SeqRange(r) THEN r ELSE Append(r, q[Len(q)])

\* the entities dict built from doc.ents
extract_entities(ents) ==
    LET rel == SelectSeq(ents, LAMBDA e : e.label \in relevant_labels)
    IN  JObj([l \in {rel[i].label : i \in DOMAIN rel} |->
                 LET texts == Dedup(SelectSeq(rel, LAMBDA e : e.label = l))
                 IN  JArr([i \in DOMAIN texts |-> JStr(texts[i].text)])])

\* outcome of a parse call
Success(record, checked) ==
    [ok |-> TRUE, record |-> record, error |-> "none", checked |-> checked]
Failure(kind) ==
    [ok |-> FALSE, record |-> JObj(EmptyDict), error |-> kind, checked |-> FALSE]
\* the validator was run on the assembled record and rejected it
Rejected(kind) ==
    [ok |-> FALSE, record |-> JObj(EmptyDict), error |-> kind, checked |-> TRUE]

\* "is_valid, error_message = validate_json(...)" and what follows it
Validated(record) ==
    IF ~validate_json(record) THEN Rejected("ValueError")
    ELSE Success(record, TRUE)

\* ner: [raised |-> BOOLEAN, ents |-> doc.ents] is what self.nlp does
RuleBasedParser_parse(email_content, headers, ner) ==
    IF ner.raised THEN Failure("NlpError")
    ELSE Validated(JObj(DictUpdate(ExtractAll(email_content, headers),
                                   "Entities" :> extract_entities(ner.ents))))

\* the entities dict built from the transformer pipeline's output
transformer_extraction(tr) ==
    "TransformerEntities" :>
        (IF tr.raised THEN JObj(EmptyDict)
         ELSE JObj([l \in {tr.ents[i].label : i \in DOMAIN tr.ents} |->
                      LET ws == SelectSeq(tr.ents, LAMBDA e : e.label = l)
                      IN  JArr([i \in DOMAIN ws |-> JStr(ws[i].text)])]))

\* "fuzzy_match_fields" and "known_values" of default_config
fuzzy_match_fields_config ==
    <<"Insurance Company", "Handler", "Adjuster Name", POLICY_NUMBER>>

known_values(field) ==
    CASE field = "Insurance Company" ->
            <<"State Farm", "Allstate", "Geico", "Progressive", "Nationwide">>
      [] field = "Handler"       -> <<"John Doe", "Jane Smith", "Emily Davis">>
      [] field = "Adjuster Name" -> <<"Michael Brown", "Sarah Johnson", "David Wilson">>
      [] field = POLICY_NUMBER   -> <<"ABC123", "XYZ789", "DEF456">>
      [] OTHER                   -> <<>>

\* max(values, key=score, default=None): the first entry of highest score
BestMatch(values, score) ==
    IF values = <<>> THEN None
    ELSE values[MinOf({i \in DOMAIN values :
                          \A j \in DOMAIN values : score[values[j]] <= score[values[i]]})]

FuzzyThreshold == 80

\* score: the similarity collaborator, fuzz.partial_ratio(value, text)
RECURSIVE FuzzyLoop(_, _, _)
FuzzyLoop(parsed_data, fields, score) ==
    IF fields = <<>> THEN parsed_data
    ELSE LET field == Head(fields)
             best  == BestMatch(known_values(field), score)
         IN  FuzzyLoop(
                 IF /\ field \in DOMAIN parsed_data
                    /\ parsed_data[field].t = "string"
                    /\ parsed_data[field].v = NA
                    /\ best # None
                    /\ score[best] > FuzzyThreshold
                 THEN DictUpdate(parsed_data, field :> JStr(<<best>>))
                 ELSE parsed_data,
                 Tail(fields), score)

fuzzy_match_fields(parsed_data, score) ==
    FuzzyLoop(parsed_data, fuzzy_match_fields_config, score)

\* "post_processing_rules" of default_config
post_processing_rules ==
    <<[field |-> ADJUSTER_EMAIL, condition_field |-> ADJUSTER_EMAIL,
       condition_value |-> JStr(NA),
       action_value |-> JStr(<<"unknown@example.com">>)]>>

RECURSIVE RulesLoop(_, _)
RulesLoop(parsed_data, rules) ==
    IF rules = <<>> THEN parsed_data
    ELSE LET rule == Head(rules)
         IN  RulesLoop(
                 IF /\ rule.condition_field \in DOMAIN parsed_data
                    /\ parsed_data[rule.condition_field].t = rule.condition_value.t
                    /\ parsed_data[rule.condition_field].v = rule.condition_value.v
                 THEN DictUpdate(parsed_data, rule.field :> rule.action_value)
                 ELSE parsed_data,
                 Tail(rules))

apply_rules(parsed_data) == RulesLoop(parsed_data, post_processing_rules)

\* spaCy failures are swallowed by HybridParser.extract_entities
\* extract_entities of HybridParser: an exception gives no entities
hybrid_extract_entities(ner) ==
    IF ner.raised THEN JObj(EmptyDict) ELSE extract_entities(ner.ents)

HybridParser_parse(email_content, headers, ner, tr, score) ==
    Validated(JObj(apply_rules(fuzzy_match_fields(
        DictUpdate(DictUpdate(ExtractAll(email_content, headers),
                              "Entities" :> hybrid_extract_entities(ner)),
                   transformer_extraction(tr)),
        score))))

(***************************************************************************)
(* LLM-backed strategies                                                   *)
(***************************************************************************)
\* Symbols of a completion: the two fence spellings, braces, "BODY" (the
\* members of a JSON object, whose value is the payload that comes with the
\* completion) and "prose" (any other text)
Fences == {"<fence>", "<fence-json>"}

\* re.sub of a fence, with "json" or not, and the whitespace after it
RECURSIVE RemoveFences(_)
RemoveFences(s) ==
    IF s = <<>> THEN <<>>
    ELSE IF s[1] \in Fences
    THEN RemoveFences(SubSeq(s, SkipWS(s, 2), Len(s)))
    ELSE <<s[1]>> \o RemoveFences(Tail(s))

\* re.search(r'\{.*\}', response, re.DOTALL): from the first "{" to the
\* last "}" after it; [raised |-> TRUE] is ValueError("No JSON object ...")
JsonSpan(r) ==
    LET opens  == {i \in DOMAIN r : r[i] = "{"}
        closes == {i \in DOMAIN r : r[i] = "}" /\ opens # {} /\ i > MinOf(opens)}
    IN  IF closes = {} THEN [raised |-> TRUE, value |-> <<>>]
        ELSE [raised |-> FALSE, value |-> SubSeq(r, MinOf(opens), MaxOf(closes))]

clean_response(response) == JsonSpan(Strip(RemoveFences(response)))

\* json.loads(cleaned_response); [raised |-> TRUE] is json.JSONDecodeError
JsonDocument(c, payload) ==
    IF c = <<"{", "BODY", "}">> THEN [raised |-> FALSE, value |-> payload]
    ELSE IF c = <<"{", "}">> THEN [raised |-> FALSE, value |-> JObj(EmptyDict)]
    ELSE [raised |-> TRUE, value |-> JObj(EmptyDict)]

json_loads(cleaned, payload) ==
    JsonDocument(SelectSeq(cleaned, LAMBDA x : x \notin WS), payload)

\* validate_json as redefined in local_llm_parser.py: it calls validate(),
\* a name the module never imports, so the call raises NameError
local_llm_validate_json(parsed_data) ==
    [raised |-> TRUE, error |-> "NameError", valid |-> validate_json(parsed_data)]

\* lines 244-252: the validation and the return
LocalValidated(extracted_data, checked) ==
    IF checked.raised THEN Failure(checked.error)
    ELSE IF ~checked.valid THEN Rejected("ValueError")
    ELSE Success(extracted_data, TRUE)

\* lines 241-252
LocalLoaded(loaded) ==
    IF loaded.raised THEN Failure("ValueError")
    ELSE LocalValidated(loaded.value, local_llm_validate_json(loaded.value))

\* lines 237-252
LocalCleaned(cleaned, payload) ==
    IF cleaned.raised THEN Failure("ValueError")
    ELSE LocalLoaded(json_loads(cleaned.value, payload))

\* LocalLLMParser.parse from the completion on (lines 236-261)
LocalLLMParser_parse(response, payload) ==
    LocalCleaned(clean_response(response), payload)

\* LLMParser.parse: out is what the completion call and json.loads give
LLMParser_parse(out) ==
    IF out.kind = "raise" THEN Failure("OpenAIError")
    ELSE IF out.kind = "not_json" THEN Failure("ValueError")
    ELSE Success(out.payload, FALSE)

\* variant of retries that allows a fourth attempt
retries_one_more == 3 + 1

\* generate: retries and backoff_factor
retries == 3
backoff_factor == 2

RECURSIVE Pow(_, _)
Pow(b, e) == IF e = 0 THEN 1 ELSE b * Pow(b, e - 1)

\* variant of AttemptEffect in which only timeouts and connection errors
\* are retried
AttemptEffect_status_not_retried(out, json_is_request_error) ==
    CASE out \in {"timeout", "connection_error"} ->
            [do |-> "retry", error |-> "RequestException"]
      [] out = "text" -> [do |-> "return", error |-> "none"]
      [] OTHER -> [do |-> "raise", error |-> "ValueError"]

\* What one pass of the "for attempt" loop does with the collaborator's
\* behaviour out.  json_is_request_error: whether the installed requests
\* raises a JSONDecodeError that derives from RequestException.
\*   "retry": caught by except (RequestException, ConnectionError)
\*   "raise": leaves generate at once;  "return": the text is returned
AttemptEffect(out, json_is_request_error) ==
    CASE out = "timeout"          -> [do |-> "retry", error |-> "RequestException"]
      [] out = "connection_error" -> [do |-> "retry", error |-> "RequestException"]
      [] out = "non_200"          -> [do |-> "retry", error |-> "ConnectionError"]
      [] out = "bad_json"         ->
            IF json_is_request_error
            THEN [do |-> "retry", error |-> "RequestException"]
            ELSE [do |-> "raise", error |-> "ValueError"]
      [] out = "no_choices"       -> [do |-> "raise", error |-> "IndexError"]
      [] out = "empty_text"       -> [do |-> "raise", error |-> "ValueError"]
      [] out = "text"             -> [do |-> "return", error |-> "none"]

CollaboratorOutcomes ==
    {"timeout", "connection_error", "non_200", "bad_json", "no_choices",
     "empty_text", "text"}

(***************************************************************************)
(* Strategy selection                                                      *)
(***************************************************************************)
\* ParserOption members and their values (parser_options.py)
RULE_BASED    == "ParserOption.RULE_BASED"
LOCAL_LLM     == "ParserOption.LOCAL_LLM"
LLM           == "ParserOption.LLM"
HYBRID_PARSER == "ParserOption.HYBRID_PARSER"
ParserOption  == {RULE_BASED, LOCAL_LLM, LLM, HYBRID_PARSER}
OptionValues  == {"rule_based", "local_llm", "llm", "hybrid_parser"}

\* what a caller can pass as an identifier: a member, a string, anything else
Identifiers == ParserOption \cup OptionValues \cup {"unknown"}

ParserClasses == {"RuleBasedParser", "HybridParser", "LLMParser", "LocalLLMParser"}

\* _registry once parser_registry.py has been imported
InitialRegistry ==
    [o \in ParserOption |->
        CASE o = RULE_BASED -> "RuleBasedParser"
          [] o = LOCAL_LLM  -> "LocalLLMParser"
          [] OTHER          -> None]

\* variant of register_parser that drops every other entry
register_parser_replacing(reg, option, parser_cls) ==
    [raised   |-> option \notin ParserOption,
     registry |-> [o \in ParserOption |-> IF o = option THEN parser_cls ELSE None]]

\* ParserRegistry.register_parser: the registry it leaves
register_parser(reg, option, parser_cls) ==
    IF option \notin ParserOption
    THEN [raised |-> TRUE, registry |-> reg]
    ELSE [raised |-> FALSE, registry |-> [reg EXCEPT ![option] = parser_cls]]

\* what each constructor can raise (spaCy model or configuration missing,
\* OPENAI_API_KEY missing, endpoint missing or unreachable)
ConstructorErrors(cls) ==
    CASE cls = "RuleBasedParser" -> {"OSError"}
      [] cls = "HybridParser"    -> {"OSError"}
      [] cls = "LLMParser"       -> {"ValueError"}
      [] cls = "LocalLLMParser"  -> {"ValueError", "ConnectionError"}

Faults == {"none", "OSError", "ValueError", "ConnectionError"}

\* parser_cls(): the instance, or the constructor's exception
Construct(cls, fault) ==
    IF fault \in ConstructorErrors(cls)
    THEN [ok |-> FALSE, instance |-> None, error |-> fault]
    ELSE [ok |-> TRUE, instance |-> cls, error |-> "none"]

SelectionError(kind) == [ok |-> FALSE, instance |-> None, error |-> kind]

ParserRegistry_get_parser(reg, option, fault) ==
    IF option \notin ParserOption THEN SelectionError("TypeError")
    ELSE IF reg[option] = None THEN SelectionError("ValueError")
    ELSE Construct(reg[option], fault)

ParserFactory_get_parser(parser_option, fault) ==
    CASE parser_option = "rule_based" -> Construct("RuleBasedParser", fault)
      [] parser_option = "llm"        -> Construct("LLMParser", fault)
      [] parser_option = "local_llm"  -> Construct("LocalLLMParser", fault)
      [] OTHER                        -> SelectionError("ValueError")

\* EmailParser.parse_email: get_parser has already built an instance, and
\* line 30 calls that instance as if it were a class; no parser defines
\* __call__, so the call raises TypeError and lines 31-44 never run
CallInstance(parser_class) ==
    IF ~parser_class.ok THEN Failure(parser_class.error)
    ELSE Failure("TypeError")

EmailParser_parse_email(reg, email_content, parser_option, fault) ==
    CallInstance(ParserRegistry_get_parser(reg, parser_option, fault))

\* variant of parse_fallback in which every failed parse hands off again
parse_fallback_chained(strategy) == "LocalLLMParser"

\* The strategy a parse hands off to when it fails.  RuleBasedParser and
\* HybridParser define fallback_to_llm_parser, but no parse calls it: a
\* failed validation is raised as ValueError
parse_fallback(strategy) == None

\* error kinds that app.py reports as "Validation Error" (except ValueError)
ReportedAsValidationError(kind) == kind = "ValueError"

(***************************************************************************)
(* Inputs                                                                  *)
(***************************************************************************)
MaxLines == 3
MaxRequestLines == 1
MaxResp == 4
MaxRequestResp == 2
MaxRegistrations == 1

\* lines an email is made of
Lines ==
    {<<REQUESTING_PARTY>>,
     <<"requesting party", ":">>,
     <<"Handler", ":", " ", "Bob">>,
     <<"Handler", ":">>,
     <<ATTACHMENTS>>,
     <<ATTACHMENTS, ":", " ", "a.pdf">>,
     <<ATTACHMENTS, ":", " ", "a.pdf", ",", " ", "a.txt">>,
     <<ASSIGNMENT_TYPE>>,
     <<"Wind", " ", "[", "X", "]">>}

RequestLines ==
    {<<REQUESTING_PARTY>>, <<"Handler", ":", " ", "Bob">>, <<"Claim Summary">>}

SeqsUpTo(S, n) == UNION {[1..k -> S] : k \in 0..n}

MaxBodyLines == 3

\* the body of a section: up to MaxBodyLines of the given lines
Bodies(L) == {Join(q) : q \in SeqsUpTo(L, MaxBodyLines)}

\* the text of an "Attachment(s)" section: nothing, the label alone, or the
\* label and a list of one or two entries
AttachmentEntries    == {"a.pdf", "A.PDF", "a.txt", "http://x.com/f", "N/A"}
AttachmentSeparators == {<<",", " ">>, <<";">>, <<" ", "-", " ">>}

AttachmentTexts ==
    {<<>>, <<ATTACHMENTS, ":">>}
    \cup {<<ATTACHMENTS, ":", " ", a>> : a \in AttachmentEntries}
    \cup {<<ATTACHMENTS, ":", " ", a>> \o sep \o <<b>> :
              a \in AttachmentEntries, b \in AttachmentEntries,
              sep \in AttachmentSeparators}

\* lines of an "Assignment Type" section
AssignmentTypeLines ==
    {<<"Wind", " ", "[", "X", "]">>,
     <<"Wind", " ", "[", " ", "x", " ", "]">>,
     <<"Wind", " ", "[", " ", "]">>,
     <<"Wind", " ", "[", "y", "]">>,
     <<"Wind", "[", "x", "]">>,
     <<"wind", " ", "[", "x", "]">>,
     <<"Downwind", " ", "[", "x", "]">>,
     <<"Wind">>,
     <<"[", "x", "]">>,
     <<"Hail", " ", "[", " ", "]">>,
     <<"Hail", " ", "[", "X", "]">>,
     <<"Structural", " ", "[", "x", "]">>,
     <<"Foundation", " ", "(", "x", ")">>,
     <<"Foundation", ":", " ", "[", "x", "]">>}

\* lines as written, some padded with blanks, some blank, and the emails of
\* up to MaxPaddedLines of them
MaxPaddedLines == 4

PaddedLines ==
    {<<REQUESTING_PARTY>>,
     <<" ", REQUESTING_PARTY, ":", " ">>,
     <<ATTACHMENTS, ":">>,
     <<" ", "Bob", " ">>,
     <<"a.pdf">>,
     <<" ">>,
     <<>>}

PaddedTexts == SeqsUpTo(PaddedLines, MaxPaddedLines)

\* an email with two sections, and the emails made of some of its lines
TwoSections ==
    <<<<REQUESTING_PARTY>>,
      <<"Handler", ":", " ", "Bob">>,
      <<"Insurance Company", ":", " ", "Acme">>,
      <<ASSIGNMENT_TYPE>>,
      <<"Wind", " ", "[", "X", "]">>>>

Pick(t, S) ==
    LET F[i \in 0..Len(t)] ==
            IF i = 0 THEN <<>>
            ELSE IF i \in S THEN Append(F[i - 1], t[i]) ELSE F[i - 1]
    IN  F[Len(t)]

TwoSectionTexts == {Pick(TwoSections, S) : S \in SUBSET DOMAIN TwoSections}

\* the fields of "Requesting Party" a configuration leaves without a group
UngroupedFields == {{"Handler"}, {"Insurance Company"}, {CARRIER_CLAIM_NUMBER}}

\* lines of an "Assignment Type" section about the "Other" box
OtherLines ==
    {<<"Other", " ", "[", "x", "]">>,
     <<"Other", " ", "[", "X", "]", " ", "-", " ", "provide details", ":">>,
     <<"Other", " ", "[", "x", "]", " ", "-", " ", "provide details", ":", " ", " ">>,
     <<"Other", " ", "[", "x", "]", " ", "-", " ", "Provide Details", ":", " ",
       "Roof", " ">>,
     <<"Other", " ", "[", " ", "]", " ", "-", " ", "provide details", ":", " ",
       "Roof">>,
     <<"Other", " ", "[", "x", "]", ":", " ", "Roof">>,
     <<"Roof">>,
     <<"Wind", " ", "[", "x", "]">>}

\* dates as written: two one- or two-digit numbers and a year of four or two
\* digits in either order with one separator, dates without separators,
\* with a month name or with a time, and values that are no date
DayOrMonth == {<<"0", "3">>, <<"4">>, <<"1", "4">>, <<"1", "3">>,
               <<"0", "2">>, <<"3", "0">>, <<"2", "9">>}
Years      == {<<"2", "0", "2", "3">>, <<"2", "0", "2", "4">>,
               <<"0", "9", "9", "9">>, <<"2", "3">>}
DateSeps   == {"/", "-", "."}

DateStrings ==
    {a \o <<sep>> \o b \o <<sep>> \o y :
        a \in DayOrMonth, b \in DayOrMonth, y \in Years, sep \in DateSeps}
    \cup {y \o <<sep>> \o a \o <<sep>> \o b :
        a \in DayOrMonth, b \in DayOrMonth, y \in Years, sep \in DateSeps}
    \cup {y \o a \o b : a \in DayOrMonth, b \in DayOrMonth, y \in Years}
    \cup {<<mon, " ">> \o d \o <<",", " ">> \o y :
        mon \in {"March", "mar", "soon"}, d \in DayOrMonth, y \in Years}
    \cup {d \o <<" ", mon, " ">> \o y :
        mon \in {"March", "Mar"}, d \in DayOrMonth, y \in Years}
    \cup {<<>>, <<"soon">>, <<"N/A">>,
          <<" ", "0", "3", "/", "1", "4", "/", "2", "0", "2", "3">>,
          <<"0", "3", "/", "1", "4", "/", "2", "0", "2", "3", " ">>,
          <<"2", "0", "2", "3", "-", "0", "3", "-", "1", "4", "T",
            "1", "0", ":", "0", "0", ":", "0", "0">>,
          <<"2", "0", "2", "3", "-", "0", "3", "-", "1", "4", "T",
            "1", "0", ":", "0", "0">>}

\* phone numbers as written: an optional country prefix, an area code, an
\* exchange and a line number with one kind of separator, some of them too
\* short or followed by an extension; and values that are no phone number
PhonePrefixes  == {<<>>, <<"+", "1">>, <<"1">>, <<"1", "-">>, <<"2">>, <<"+">>}
PhoneAreas     == {<<"5", "5", "5">>, <<"(", "5", "5", "5", ")">>, <<"5", "5">>}
PhoneSeps      == {<<>>, <<" ">>, <<"-">>, <<".">>}
PhoneExchanges == {<<"1", "2", "3">>, <<"1", "2">>}
PhoneLines     == {<<"4", "5", "6", "7">>, <<"4", "5", "6">>,
                   <<"4", "5", "6", "7", " ", "x", "9">>}

Phones ==
    {<<>>, <<"N/A">>, <<"maybe">>}
    \cup {pre \o area \o sep \o exch \o sep \o line :
              pre \in PhonePrefixes, area \in PhoneAreas, sep \in PhoneSeps,
              exch \in PhoneExchanges, line \in PhoneLines}

PhoneLine(phone) == <<ADJUSTER_PHONE_NUMBER, ":", " ">> \o phone

\* what can follow the label of a yes/no field
YesNoFields == {RESIDENCE_OCCUPIED_DURING_LOSS, WAS_SOMEONE_HOME}
YesNoValues ==
    {<<>>, <<"Yes">>, <<"YES">>, <<"yes">>, <<"No">>, <<"NO">>, <<"no">>,
     <<"y">>, <<"true">>, <<"1">>, <<"x">>, <<"[", "x", "]">>,
     <<"n">>, <<"false">>, <<"0">>, <<"[", " ", "]">>,
     <<"maybe">>, <<"yesterday">>, <<"Nobody">>, <<"N/A">>}

YesNoLine(key, value) == <<key, ":", " ">> \o value

\* lines of a "Requesting Party" section
RequestingPartyLines ==
    {<<"Insurance Company", ":", " ", "Acme">>,
     <<"Handler", ":", " ", "Bob", " ">>,
     <<"Handler", ":", " ">>,
     <<CARRIER_CLAIM_NUMBER, ":", " ", "ABC123">>,
     <<CARRIER_CLAIM_NUMBER, ":">>,
     <<"Claim Number", ":", " ", "7">>,
     <<"Bob">>}

\* lines of an "Assignment Information" section
AssignmentInformationLines ==
    {<<DATE_OF_LOSS, ":", " ", "0", "3", "/", "1", "4", "/", "2", "0", "2", "3">>,
     <<"Date of Loss", ":", " ", "1", "4", "/", "0", "3", "/", "2", "0", "2", "3">>,
     <<DATE_OF_LOSS, ":", " ", "soon">>,
     <<"Cause of loss", ":", " ", "Wind">>,
     <<"Cause of loss", ":">>,
     <<"Inspection type", ":", " ", "X">>,
     <<RESIDENCE_OCCUPIED_DURING_LOSS, ":", " ", "Yes">>,
     <<WAS_SOMEONE_HOME, ":", " ", "NO">>}

Texts        == SeqsUpTo(Lines, MaxLines)
RequestTexts == SeqsUpTo(RequestLines, MaxRequestLines)

\* lines of an email about its attachments, and the emails of up to
\* MaxLines of them
AttachmentLines ==
    {<<ATTACHMENTS>>,
     <<ATTACHMENTS, ":">>,
     <<ATTACHMENTS, ":", " ", "a.pdf">>,
     <<ATTACHMENTS, ":", " ", "N/A">>,
     <<"a.pdf">>,
     <<"a.pdf", ",", " ", "a.txt">>,
     <<REQUESTING_PARTY>>}

AttachmentEmails == SeqsUpTo(AttachmentLines, MaxLines)

\* the emails parse is called with
ParseTexts == Texts \cup AttachmentEmails

\* what self.nlp(email_content) gives: an exception, or the entities
NerOutcomes ==
    {[raised |-> TRUE,  ents |-> <<>>],
     [raised |-> FALSE, ents |-> <<>>],
     [raised |-> FALSE, ents |-> <<[label |-> "PERSON", text |-> <<"Bob">>],
                                   [label |-> "MONEY",  text |-> <<"$", "5">>],
                                   [label |-> "PERSON", text |-> <<"Bob">>]>>]}

\* what the transformer pipeline gives
TransformerOutcomes ==
    {[raised |-> TRUE,  ents |-> <<>>],
     [raised |-> FALSE, ents |-> <<[label |-> "B-PER", text |-> <<"Bob">>]>>]}

\* what fuzz.partial_ratio gives for the known values: all low, or all high
AllKnownValues ==
    UNION {SeqRange(known_values(f)) : f \in SeqRange(fuzzy_match_fields_config)}

ScoreFns == {[v \in AllKnownValues |-> n] : n \in {0, 90}}

\* what fuzz.partial_ratio gives for the known values: the same for all, or
\* more for the second known handler than for the others
FuzzyScores ==
    {[v \in AllKnownValues |-> n] : n \in {0, 80, 81}}
    \cup {[v \in AllKnownValues |-> IF v = "Jane Smith" THEN 95 ELSE n] :
             n \in {0, 90}}

\* JSON values a completion can encode
DefaultRecord ==
    LET Merge(i) == default_section_data(section_headers[i])
        RECURSIVE All(_)
        All(i) == IF i = 0 THEN "Entities" :> JObj(EmptyDict)
                  ELSE DictUpdate(All(i - 1), Merge(i))
    IN  All(Len(section_headers))

\* the object the prompt of LocalLLMParser.parse asks for: no "Entities"
TemplateRecord ==
    [k \in DOMAIN DefaultRecord \ {"Entities"} |-> DefaultRecord[k]]

Payloads ==
    {JObj(DefaultRecord),
     JObj(TemplateRecord),
     JObj([DefaultRecord EXCEPT ![ATTACHMENTS] = JStr(NA)]),
     JObj(EmptyDict)}

\* the template of the prompt with its values filled in: every string with
\* s, every flag with b, the list with xs
RECURSIVE FillValue(_, _, _, _)
FillValue(x, s, b, xs) ==
    CASE x.t = "string"  -> JStr(s)
      [] x.t = "boolean" -> JBool(b)
      [] x.t = "array"   -> JArr(xs)
      [] x.t = "object"  -> JObj([k \in DOMAIN x.v |-> FillValue(x.v[k], s, b, xs)])

FilledTemplates ==
    {FillValue(JObj(TemplateRecord), s, b, xs) :
        s \in {<<>>, NA, <<"Bob">>}, b \in BOOLEAN,
        xs \in {<<>>, <<JStr(<<"a.pdf">>)>>}}

\* the filled templates with an "Entities" object added
FilledRecords ==
    {JObj(DictUpdate(d.v, "Entities" :> JObj(EmptyDict))) : d \in FilledTemplates}

\* the values the "BODY" of a completion can stand for
PayloadsOf(resp) ==
    IF "BODY" \in SeqRange(resp) THEN Payloads ELSE {JObj(EmptyDict)}

RespSymbols        == {"<fence>", "<fence-json>", "{", "}", "BODY", "prose"}
RequestRespSymbols == {"{", "}", "BODY"}

Responses        == SeqsUpTo(RespSymbols, MaxResp) \ {<<>>}
RequestResponses == SeqsUpTo(RequestRespSymbols, MaxRequestResp) \ {<<>>}

\* what openai.Completion.create and json.loads give LLMParser.parse
LLMOutcomes ==
    {[kind |-> "raise", payload |-> JObj(EmptyDict)],
     [kind |-> "not_json", payload |-> JObj(EmptyDict)]}
    \cup {[kind |-> "json", payload |-> p] : p \in Payloads}

(***************************************************************************)
(* State                                                                   *)
(***************************************************************************)
VARIABLES
    registry,       \* ParserRegistry._registry
    registrations,  \* calls of register_parser made after import
    pc,             \* "idle", "selected", "generating", "succeeded", "failed"
    entry,          \* the operation that opened the request
    option,         \* the identifier it was given
    instance,       \* class of the parser instance the caller holds, or None
    headers,        \* section_headers of that instance's configuration
    email_content,  \* the text given to parse
    ran,            \* the strategies whose parse has run in this request
    rejected,       \* those of them whose record the validator rejected
    result,         \* what the request returned or raised
    gen,            \* LocalLLMParser.generate: attempt, requests sent, sleeps
    json_is_request_error,  \* the installed requests library (see AttemptEffect)
    calls,          \* the parse calls in flight on one instance, and their frames
    calc            \* the last application of a helper: op, arg, out

vars == <<registry, registrations, pc, entry, option, instance, headers,
          email_content, ran, rejected, result, gen, json_is_request_error, calls, calc>>

\* the threads that call parse on the instance
Threads == {1, 2}

\* variant of LocalOf in which the names are attributes of the instance
LocalOf_shared(t, name) == <<0, name>>

\* The variable that a name bound in the body of parse denotes during call t:
\* "extracted_data = {}" and "sections = self.split_into_sections(...)" bind
\* locals of the call's own frame, not attributes of self
LocalOf(t, name) == <<t, name>>

NoResult == [ok |-> FALSE, record |-> JObj(EmptyDict), error |-> "none", checked |-> FALSE]

GenIdle == [attempt |-> 0, sent |-> 0, sleeps |-> <<>>, last |-> "none",
            response |-> <<>>, payload |-> JObj(EmptyDict)]
GenStart == [GenIdle EXCEPT !.attempt = 1]

\* a thread that is not inside parse
NotCalling ==
    [pc |-> "idle", text |-> <<>>, ner |-> [raised |-> FALSE, ents |-> <<>>],
     tr |-> [raised |-> TRUE, ents |-> <<>>],
     score |-> [v \in AllKnownValues |-> 0], result |-> NoResult]

Frames == {LocalOf(t, "sections") : t \in Threads}
          \cup {LocalOf(t, "extracted_data") : t \in Threads}

NoCalls ==
    [mem |-> [c \in Frames |-> IF c[2] = "sections" THEN ODEmpty ELSE EmptyDict],
     th  |-> [t \in Threads |-> NotCalling]]

NoCalc == [op |-> "none", cfg |-> section_headers, arg |-> <<>>, out |-> <<>>]

Terminal == {"succeeded", "failed"}

Init ==
    /\ registry = InitialRegistry
    /\ registrations = 0
    /\ pc = "idle"
    /\ entry = "none"
    /\ option = None
    /\ instance = None
    /\ headers = section_headers
    /\ email_content = <<>>
    /\ ran = <<>>
    /\ rejected = {}
    /\ result = NoResult
    /\ gen = GenIdle
    /\ json_is_request_error \in BOOLEAN
    /\ calls = NoCalls
    /\ calc = NoCalc

\* the state of a caller that holds a freshly constructed parser
Holding(classes) ==
    /\ registry = InitialRegistry
    /\ registrations = 0
    /\ pc = "selected"
    /\ entry = "constructor"
    /\ option = None
    /\ instance \in classes
    /\ headers \in IF instance = "LocalLLMParser" THEN {section_headers}
                   ELSE {section_headers, custom_section_headers}
    /\ email_content = <<>>
    /\ ran = <<>>
    /\ rejected = {}
    /\ result = NoResult
    /\ gen = GenIdle
    /\ json_is_request_error \in BOOLEAN
    /\ calls = NoCalls
    /\ calc = NoCalc

InitParse    == Holding({"RuleBasedParser", "HybridParser"})
InitLocalLLM == Holding({"LocalLLMParser"})

(***************************************************************************)
(* Operations                                                              *)
(***************************************************************************)
\* A selection ends: the caller holds the instance, or the error
Select(by, id, sel, hdrs) ==
    /\ pc \in {"idle", "selected"}
    /\ entry' = by
    /\ option' = id
    /\ instance' = sel.instance
    /\ headers' = hdrs
    /\ pc' = IF sel.ok THEN "selected" ELSE "failed"
    /\ result' = IF sel.ok THEN NoResult ELSE Failure(sel.error)
    /\ email_content' = <<>>
    /\ ran' = <<>>
    /\ rejected' = {}
    /\ gen' = GenIdle
    /\ UNCHANGED <<registry, registrations, json_is_request_error, calls, calc>>

FactoryGetParser ==
    \E id \in Identifiers, fault \in Faults :
        Select("ParserFactory.get_parser", id,
               ParserFactory_get_parser(id, fault), section_headers)

RegistryGetParser ==
    \E id \in Identifiers, fault \in Faults :
        Select("ParserRegistry.get_parser", id,
               ParserRegistry_get_parser(registry, id, fault), section_headers)

\* RuleBasedParser(config_path) or HybridParser(config_path), called directly
ConstructParser ==
    \E cls \in {"RuleBasedParser", "HybridParser"}, fault \in Faults,
       hdrs \in {section_headers, custom_section_headers} :
        Select("constructor", None, Construct(cls, fault), hdrs)

RegisterParser ==
    /\ pc \in {"idle", "selected"}
    /\ registrations < MaxRegistrations
    /\ \E id \in Identifiers, cls \in ParserClasses :
          registry' = register_parser(registry, id, cls).registry
    /\ registrations' = registrations + 1
    /\ UNCHANGED <<pc, entry, option, instance, headers, email_content, ran,
                   rejected, result, gen, json_is_request_error, calls, calc>>

ParseEmail(T) ==
    /\ pc \in {"idle", "selected"}
    /\ \E t \in T, id \in Identifiers, fault \in Faults :
          /\ email_content' = t
          /\ option' = id
          /\ result' = EmailParser_parse_email(registry, t, id, fault)
    /\ entry' = "EmailParser.parse_email"
    /\ instance' = None
    /\ headers' = section_headers
    /\ pc' = "failed"
    /\ ran' = <<>>
    /\ rejected' = {}
    /\ gen' = GenIdle
    /\ UNCHANGED <<registry, registrations, json_is_request_error, calls, calc>>

\* strategy s has finished with outcome r, after the strategies in ranNow
\* have run and generate has reached g
Finish(s, r, ranNow, rejNow, g) ==
    LET rej == IF r.checked /\ ~r.ok THEN rejNow \cup {s} ELSE rejNow
    IN  /\ result' = r
        /\ rejected' = rej
        /\ IF ~r.ok /\ parse_fallback(s) # None
           THEN /\ pc' = "generating"
                /\ ran' = Append(ranNow, parse_fallback(s))
                /\ gen' = GenStart
           ELSE /\ pc' = IF r.ok THEN "succeeded" ELSE "failed"
                /\ ran' = ranNow
                /\ gen' = g

RuleBasedParserParse(T) ==
    /\ pc = "selected"
    /\ instance = "RuleBasedParser"
    /\ \E t \in T, ner \in NerOutcomes :
          /\ email_content' = t
          /\ Finish("RuleBasedParser", RuleBasedParser_parse(t, headers, ner),
                    <<"RuleBasedParser">>, {}, GenIdle)
    /\ UNCHANGED <<registry, registrations, entry, option, instance, headers,
                   json_is_request_error, calls, calc>>

HybridParserParse(T) ==
    /\ pc = "selected"
    /\ instance = "HybridParser"
    /\ \E t \in T, ner \in NerOutcomes, tr \in TransformerOutcomes,
          score \in ScoreFns :
          /\ email_content' = t
          /\ Finish("HybridParser", HybridParser_parse(t, headers, ner, tr, score),
                    <<"HybridParser">>, {}, GenIdle)
    /\ UNCHANGED <<registry, registrations, entry, option, instance, headers,
                   json_is_request_error, calls, calc>>

LLMParserParse(T) ==
    /\ pc = "selected"
    /\ instance = "LLMParser"
    /\ \E t \in T, out \in LLMOutcomes :
          /\ email_content' = t
          /\ Finish("LLMParser", LLMParser_parse(out), <<"LLMParser">>, {}, GenIdle)
    /\ UNCHANGED <<registry, registrations, entry, option, instance, headers,
                   json_is_request_error, calls, calc>>

\* LocalLLMParser.parse up to its call of generate
LocalLLMParserParse(T) ==
    /\ pc = "selected"
    /\ instance = "LocalLLMParser"
    /\ \E t \in T : email_content' = t
    /\ pc' = "generating"
    /\ ran' = <<"LocalLLMParser">>
    /\ rejected' = {}
    /\ result' = NoResult
    /\ gen' = GenStart
    /\ UNCHANGED <<registry, registrations, entry, option, instance, headers,
                   json_is_request_error, calls, calc>>

\* fallback_to_llm_parser(email_content), called by the holder of a
\* RuleBasedParser or a HybridParser: LocalLLMParser().parse(email_content)
FallbackToLlmParser(T) ==
    /\ pc = "selected"
    /\ instance \in {"RuleBasedParser", "HybridParser"}
    /\ \E t \in T, fault \in Faults :
          LET llm_parser == Construct("LocalLLMParser", fault)
          IN  /\ email_content' = t
              /\ rejected' = {}
              /\ IF llm_parser.ok
                 THEN /\ pc' = "generating"
                      /\ ran' = <<"LocalLLMParser">>
                      /\ result' = NoResult
                      /\ gen' = GenStart
                 ELSE /\ pc' = "failed"
                      /\ ran' = <<>>
                      /\ result' = Failure(llm_parser.error)
                      /\ gen' = GenIdle
    /\ UNCHANGED <<registry, registrations, entry, option, instance, headers,
                   json_is_request_error, calls, calc>>

\* one pass of the loop of generate on the collaborator's behaviour out,
\* and, when generate returns, the rest of LocalLLMParser.parse
GenerateStep(out, resp, payload) ==
    LET eff  == AttemptEffect(out, json_is_request_error)
        sent == [gen EXCEPT !.sent = @ + 1, !.last = out]
    IN  CASE eff.do = "retry" /\ gen.attempt < retries ->
               /\ gen' = [sent EXCEPT
                            !.sleeps = Append(@, Pow(backoff_factor, gen.attempt)),
                            !.attempt = @ + 1]
               /\ UNCHANGED <<pc, ran, rejected, result>>
          [] eff.do = "retry" /\ gen.attempt >= retries ->
               Finish("LocalLLMParser", Failure(eff.error), ran, rejected, sent)
          [] eff.do = "raise" ->
               Finish("LocalLLMParser", Failure(eff.error), ran, rejected, sent)
          [] eff.do = "return" ->
               Finish("LocalLLMParser", LocalLLMParser_parse(resp, payload),
                      ran, rejected,
                      [sent EXCEPT !.response = resp, !.payload = payload])

GenerateAttempt(R) ==
    /\ pc = "generating"
    /\ \E out \in CollaboratorOutcomes :
          IF out = "text"
          THEN \E resp \in R :
                  \E payload \in PayloadsOf(resp) : GenerateStep(out, resp, payload)
          ELSE GenerateStep(out, <<>>, JObj(EmptyDict))
    /\ UNCHANGED <<registry, registrations, entry, option, instance, headers,
                   email_content, json_is_request_error, calls, calc>>

\* the caller has taken the result; an instance it holds can parse again
Done ==
    /\ pc \in Terminal
    /\ pc' = IF instance = None THEN "idle" ELSE "selected"
    /\ email_content' = <<>>
    /\ ran' = <<>>
    /\ rejected' = {}
    /\ result' = NoResult
    /\ gen' = GenIdle
    /\ UNCHANGED <<registry, registrations, entry, option, instance, headers,
                   json_is_request_error, calls, calc>>

Next ==
    \/ FactoryGetParser
    \/ RegistryGetParser
    \/ ConstructParser
    \/ RegisterParser
    \/ ParseEmail(RequestTexts)
    \/ RuleBasedParserParse(RequestTexts)
    \/ HybridParserParse(RequestTexts)
    \/ LLMParserParse(RequestTexts)
    \/ LocalLLMParserParse(RequestTexts)
    \/ FallbackToLlmParser(RequestTexts)
    \/ GenerateAttempt(RequestResponses)
    \/ Done

Spec == Init /\ [][Next]_vars

NextParse ==
    \/ RuleBasedParserParse(ParseTexts)
    \/ HybridParserParse(ParseTexts)
    \/ Done

SpecParse == InitParse /\ [][NextParse]_vars

NextLocalLLM ==
    \/ LocalLLMParserParse(RequestTexts)
    \/ GenerateAttempt(Responses)
    \/ Done

SpecLocalLLM == InitLocalLLM /\ [][NextLocalLLM]_vars

(***************************************************************************)
(* Two threads calling parse on one RuleBasedParser or HybridParser          *)
(***************************************************************************)
\* what the other variables do while the calls run
CallFrame ==
    UNCHANGED <<registry, registrations, pc, entry, option, instance, headers,
                email_content, ran, rejected, result, gen,
                json_is_request_error, calc>>

\* thread t moves to position p; cell c of the memory takes value v
CallStep(t, p, c, v) ==
    calls' = [calls EXCEPT !.th[t].pc = p, !.mem[c] = v]

\* thread t enters parse: "extracted_data = {}".  The collaborators' answers
\* to this call are drawn here
CallParse(t) ==
    /\ calls.th[t].pc = "idle"
    /\ \E text \in RequestTexts, ner \in NerOutcomes,
          tr \in TransformerOutcomes, score \in ScoreFns :
          /\ instance = "RuleBasedParser" =>
                /\ tr = NotCalling.tr
                /\ score = NotCalling.score
          /\ calls' = [calls EXCEPT
                         !.th[t] = [pc |-> "split", text |-> text, ner |-> ner,
                                    tr |-> tr, score |-> score,
                                    result |-> NoResult],
                         !.mem[LocalOf(t, "extracted_data")] = EmptyDict]
    /\ CallFrame

\* "sections = self.split_into_sections(email_content)"
CallSplit(t) ==
    /\ calls.th[t].pc = "split"
    /\ CallStep(t, "extract", LocalOf(t, "sections"),
                split_into_sections(calls.th[t].text, headers))
    /\ CallFrame

\* "for section, content in sections.items()" and the check that follows it
CallExtract(t) ==
    /\ calls.th[t].pc = "extract"
    /\ CallStep(t, "entities", LocalOf(t, "extracted_data"),
                EnsureAdditionalDetails(
                    ExtractSections(calls.mem[LocalOf(t, "extracted_data")],
                                    calls.mem[LocalOf(t, "sections")].keys,
                                    calls.mem[LocalOf(t, "sections")].map)))
    /\ CallFrame

\* what the lines between the sections loop and the validation make of the
\* record: the entities, and in HybridParser the transformer entities, the
\* fuzzy matches and the post-processing rules
Augmented(cls, data, c) ==
    IF cls = "RuleBasedParser"
    THEN DictUpdate(data, "Entities" :> extract_entities(c.ner.ents))
    ELSE apply_rules(fuzzy_match_fields(
             DictUpdate(DictUpdate(data, "Entities" :> hybrid_extract_entities(c.ner)),
                        transformer_extraction(c.tr)),
             c.score))

CallEntities(t) ==
    /\ calls.th[t].pc = "entities"
    /\ IF instance = "RuleBasedParser" /\ calls.th[t].ner.raised
       THEN calls' = [calls EXCEPT !.th[t].pc = "done",
                                   !.th[t].result = Failure("NlpError")]
       ELSE CallStep(t, "validate", LocalOf(t, "extracted_data"),
                     Augmented(instance, calls.mem[LocalOf(t, "extracted_data")],
                               calls.th[t]))
    /\ CallFrame

\* "is_valid, error_message = validate_json(extracted_data)" and the return
CallValidate(t) ==
    /\ calls.th[t].pc = "validate"
    /\ calls' = [calls EXCEPT
                   !.th[t].pc = "done",
                   !.th[t].result =
                       Validated(JObj(calls.mem[LocalOf(t, "extracted_data")]))]
    /\ CallFrame

\* the caller has taken the result of thread t
CallReturn(t) ==
    /\ calls.th[t].pc = "done"
    /\ calls' = [calls EXCEPT !.th[t] = NotCalling]
    /\ CallFrame

NextConcurrent ==
    \E t \in Threads :
        \/ CallParse(t)
        \/ CallSplit(t)
        \/ CallExtract(t)
        \/ CallEntities(t)
        \/ CallValidate(t)
        \/ CallReturn(t)

SpecConcurrent == InitParse /\ [][NextConcurrent]_vars

(***************************************************************************)
(* The helpers of RuleBasedParser applied to drawn inputs                    *)
(***************************************************************************)
\* helper op, applied to arg under configuration cfg, has returned out
Applied(op, cfg, arg, out) == [op |-> op, cfg |-> cfg, arg |-> arg, out |-> out]

FnFrame ==
    UNCHANGED <<registry, registrations, pc, entry, option, instance, headers,
                email_content, ran, rejected, result, gen,
                json_is_request_error, calls>>

ApplySplitIntoSections ==
    /\ calc.op = "none"
    /\ \E t \in Texts \cup PaddedTexts,
          cfg \in {section_headers, custom_section_headers} :
          calc' = Applied("split_into_sections", cfg, t, split_into_sections(t, cfg))
    /\ FnFrame

\* the sections loop of parse: split, then one extract_* per section
ApplyExtractAll ==
    /\ calc.op = "none"
    /\ \E t \in Texts :
          calc' = Applied("ExtractAll", section_headers, t,
                          ExtractAll(t, section_headers))
    /\ FnFrame

\* the sections loop of parse under a configuration with an ungrouped
\* pattern
ApplyExtractAllUngrouped ==
    /\ calc.op = "none"
    /\ \E t \in TwoSectionTexts, ungrouped \in UngroupedFields :
          calc' = Applied("ExtractAllUngrouped", section_headers,
                          [text |-> t, ungrouped |-> ungrouped],
                          ExtractAllUngrouped(t, section_headers, ungrouped))
    /\ FnFrame

ApplyExtractRequestingParty ==
    /\ calc.op = "none"
    /\ \E text \in Bodies(RequestingPartyLines) :
          calc' = Applied("extract_requesting_party", section_headers, text,
                          extract_requesting_party(text))
    /\ FnFrame

ApplyExtractAssignmentInformation ==
    /\ calc.op = "none"
    /\ \E text \in Bodies(AssignmentInformationLines) :
          calc' = Applied("extract_assignment_information", section_headers, text,
                          extract_assignment_information(text))
    /\ FnFrame

ApplyExtractAssignmentType ==
    /\ calc.op = "none"
    /\ \E text \in Bodies(AssignmentTypeLines) \cup Bodies(OtherLines) :
          calc' = Applied("extract_assignment_type", section_headers, text,
                          extract_assignment_type(text))
    /\ FnFrame

ApplyParseDate ==
    /\ calc.op = "none"
    /\ \E date_str \in DateStrings :
          calc' = Applied("parse_date", section_headers, date_str,
                          parse_date(date_str))
    /\ FnFrame

ApplyFormatPhoneNumber ==
    /\ calc.op = "none"
    /\ \E phone \in Phones :
          calc' = Applied("format_phone_number", section_headers, phone,
                          format_phone_number(phone))
    /\ FnFrame

ApplyExtractAdjusterInformation ==
    /\ calc.op = "none"
    /\ \E phone \in Phones :
          calc' = Applied("extract_adjuster_information", section_headers,
                          PhoneLine(phone),
                          extract_adjuster_information(PhoneLine(phone)))
    /\ FnFrame

ApplyExtractYesNo ==
    /\ calc.op = "none"
    /\ \E key \in YesNoFields, value \in YesNoValues :
          calc' = Applied("yes_no", section_headers, YesNoLine(key, value),
                          extract_assignment_information(YesNoLine(key, value)))
    /\ FnFrame

ApplyExtractAttachments ==
    /\ calc.op = "none"
    /\ \E text \in AttachmentTexts :
          calc' = Applied("extract_attachments", section_headers, text,
                          extract_attachments(text))
    /\ FnFrame

\* fuzzy_match_fields(text, parsed_data) on the record the sections loop
\* has just given
ApplyFuzzyMatchFields ==
    /\ calc.op = "ExtractAll"
    /\ \E score \in FuzzyScores :
          calc' = Applied("fuzzy_match_fields", calc.cfg,
                          [parsed_data |-> calc.out, score |-> score],
                          fuzzy_match_fields(calc.out, score))
    /\ FnFrame

\* apply_rules(parsed_data) on the record fuzzy_match_fields has just given
ApplyApplyRules ==
    /\ calc.op = "fuzzy_match_fields"
    /\ calc' = Applied("apply_rules", calc.cfg, calc.out, apply_rules(calc.out))
    /\ FnFrame

\* _clean_response(response)
ApplyCleanResponse ==
    /\ calc.op = "none"
    /\ \E response \in Responses :
          calc' = Applied("clean_response", section_headers, response,
                          clean_response(response))
    /\ FnFrame

\* validate_json(parsed_data) on a completion that follows the template
ApplyValidateJson ==
    /\ calc.op = "none"
    /\ \E parsed_data \in FilledTemplates \cup FilledRecords :
          calc' = Applied("validate_json", section_headers, parsed_data,
                          validate_json(parsed_data))
    /\ FnFrame

\* the caller has taken the value
Forget ==
    /\ calc.op # "none"
    /\ calc' = NoCalc
    /\ FnFrame

NextFunctions ==
    \/ ApplySplitIntoSections
    \/ ApplyExtractAll
    \/ ApplyExtractAllUngrouped
    \/ ApplyExtractRequestingParty
    \/ ApplyExtractAssignmentInformation
    \/ ApplyExtractAttachments
    \/ ApplyExtractYesNo
    \/ ApplyExtractAssignmentType
    \/ ApplyParseDate
    \/ ApplyFormatPhoneNumber
    \/ ApplyExtractAdjusterInformation
    \/ ApplyFuzzyMatchFields
    \/ ApplyApplyRules
    \/ ApplyCleanResponse
    \/ ApplyValidateJson
    \/ Forget

SpecFunctions == Init /\ [][NextFunctions]_vars

(***************************************************************************)
(* Properties                                                              *)
(***************************************************************************)
\* a line of the parsed text is the header of the section
SectionGiven(section) ==
    \E i \in DOMAIN email_content :
        header_match(Strip(email_content[i]), <<section>>)

ReturnedByRuleBasedOrHybrid ==
    /\ pc = "succeeded"
    /\ ran \in {<<"RuleBasedParser">>, <<"HybridParser">>}
    /\ headers = section_headers

FieldSectionComplete(section, x) ==
    /\ x.t = "object"
    /\ DOMAIN x.v = SchemaFields[section]
    /\ \A f \in SchemaFields[section] : x.v[f].t = "string" /\ x.v[f].v # <<>>
    /\ ~SectionGiven(section) => \A f \in SchemaFields[section] : x.v[f].v = NA

AssignmentTypeComplete(x) ==
    /\ x.t = "object"
    /\ DOMAIN x.v = SchemaFlags \cup {"Other"}
    /\ \A f \in SchemaFlags : x.v[f].t = "boolean"
    /\ x.v["Other"].t = "object"
    /\ DOMAIN x.v["Other"].v = {"Checked", "Details"}
    /\ x.v["Other"].v["Checked"].t = "boolean"
    /\ x.v["Other"].v["Details"].t = "string"
    /\ x.v["Other"].v["Details"].v # <<>>
    /\ ~SectionGiven(ASSIGNMENT_TYPE) =>
          /\ \A f \in SchemaFlags : x.v[f].v = FALSE
          /\ x.v["Other"].v["Checked"].v = FALSE
          /\ x.v["Other"].v["Details"].v = NA

\* C1: a record returned by RuleBasedParser.parse or HybridParser.parse under
\* the default configuration has every top-level and nested key of the
\* schema; every string field is a non-empty string, and the fields of a
\* section the text does not have hold their sentinels: "N/A", false, and
\* [] for Attachment(s)
C1_RecordComplete ==
    ReturnedByRuleBasedOrHybrid =>
        /\ result.record.t = "object"
        /\ SchemaRequired \subseteq DOMAIN result.record.v
        /\ \A section \in DOMAIN SchemaFields :
              FieldSectionComplete(section, result.record.v[section])
        /\ AssignmentTypeComplete(result.record.v[ASSIGNMENT_TYPE])
        /\ result.record.v[ADDITIONAL_DETAILS].t = "string"
        /\ result.record.v[ADDITIONAL_DETAILS].v # <<>>
        /\ ~SectionGiven(ADDITIONAL_DETAILS) =>
              result.record.v[ADDITIONAL_DETAILS].v = NA
        /\ result.record.v[ATTACHMENTS].t = "array"
        /\ ~SectionGiven(ATTACHMENTS) => result.record.v[ATTACHMENTS].v = <<>>
        /\ result.record.v["Entities"].t = "object"

\* a returned record with a resolved field, an unresolved field of the same
\* section, and no Attachment(s) section in the text
C1_Witness ==
    /\ ReturnedByRuleBasedOrHybrid
    /\ ~SectionGiven(ATTACHMENTS)
    /\ result.record.v[ATTACHMENTS].v = <<>>
    /\ result.record.v[REQUESTING_PARTY].v["Handler"].v = <<"Bob">>
    /\ result.record.v[REQUESTING_PARTY].v["Insurance Company"].v = NA

\* C2: a record returned by the parse of a strategy obtained from
\* ParserFactory.get_parser or ParserRegistry.get_parser has passed the
\* schema validator
C2_ValidatedBeforeReturned ==
    (/\ pc = "succeeded"
     /\ entry \in {"ParserFactory.get_parser", "ParserRegistry.get_parser"})
        => (result.checked /\ validate_json(result.record))

FallbackDeclared == {"RuleBasedParser", "HybridParser"}

\* C3: when the record assembled by a strategy that declares a fallback is
\* rejected by the validator, the request ends with the fallback strategy
\* having run after it
C3_FallbackOnRejection ==
    (/\ pc \in Terminal
     /\ ran # <<>>
     /\ ran[1] \in FallbackDeclared
     /\ ran[1] \in rejected)
        => (Len(ran) = 2 /\ ran[2] = "LocalLLMParser")

\* C4: at most two strategies run in a parse request
C4_AtMostTwoStrategies == Len(ran) <= 2

\* a request in which the validator rejected the selected strategy's record
C4_Witness ==
    /\ pc = "failed"
    /\ ran = <<"RuleBasedParser">>
    /\ rejected = {"RuleBasedParser"}

ClassOfIdentifier(id) ==
    IF id = "rule_based" THEN "RuleBasedParser" ELSE "LocalLLMParser"

\* C5: parse_email called with 'rule_based' or 'local_llm' runs the parse of
\* that strategy exactly once, and succeeds when the validator accepts
C5_ParseEmailRunsStrategy ==
    (/\ entry = "EmailParser.parse_email"
     /\ option \in {"rule_based", "local_llm"}
     /\ pc \in Terminal)
        => ran = <<ClassOfIdentifier(option)>>

\* the identifier given at selection has no strategy
Unregistered ==
    CASE entry = "ParserFactory.get_parser" ->
            option \in {"hybrid_parser", "unknown"}
      [] entry \in {"ParserRegistry.get_parser", "EmailParser.parse_email"} ->
            IF option \in ParserOption THEN registry[option] = None ELSE TRUE
      [] OTHER -> FALSE

ValidationFailureKind == Rejected("ValueError").error

\* C6: selecting an identifier that has no strategy fails before any parse
\* runs, with an error kind other than that of a rejected record
C6_UnregisteredIsDistinctError ==
    (pc = "failed" /\ Unregistered)
        => (ran = <<>> /\ result.error # ValidationFailureKind)

TransportFailures == {"timeout", "connection_error", "non_200"}

\* C8: generate sends at most 3 requests; while it runs it has sent fewer
\* than 3, and every step it takes sends one more, so it ends
C8_GenerateTerminates ==
    /\ [](gen.sent <= 3 /\ (pc = "generating" => gen.sent < 3))
    /\ [][pc = "generating" => gen'.sent = gen.sent + 1]_vars

\* generate has raised after three failed requests
C8_Witness ==
    /\ pc = "failed"
    /\ ran = <<"LocalLLMParser">>
    /\ gen.sent = 3
    /\ gen.last = "connection_error"

HoldsValidRecord(response, payload) ==
    /\ ~clean_response(response).raised
    /\ ~json_loads(clean_response(response).value, payload).raised
    /\ validate_json(json_loads(clean_response(response).value, payload).value)

\* C10: once generate has returned a completion, LocalLLMParser.parse returns
\* the record exactly when the completion holds a JSON object that satisfies
\* the schema, and raises otherwise
C10_ReturnsValidRecords ==
    (pc \in Terminal /\ ran = <<"LocalLLMParser">> /\ gen.last = "text")
        => (pc = "succeeded" <=> HoldsValidRecord(gen.response, gen.payload))

\* what the call of thread t returns when no other call runs
Alone(t) ==
    IF instance = "RuleBasedParser"
    THEN RuleBasedParser_parse(calls.th[t].text, headers, calls.th[t].ner)
    ELSE HybridParser_parse(calls.th[t].text, headers, calls.th[t].ner,
                            calls.th[t].tr, calls.th[t].score)

\* C11: two parse calls interleaved on one RuleBasedParser or HybridParser
\* each end with exactly the outcome they have when run alone, and the
\* configuration of the instance and the registry stay as constructed
C11_ConcurrentAsAlone ==
    /\ \A t \in Threads : calls.th[t].pc = "done" => calls.th[t].result = Alone(t)
    /\ headers \in {section_headers, custom_section_headers}
    /\ registry = InitialRegistry

\* one call has returned a record while the other, given another text, is
\* between its split and its validation
C11_Witness ==
    /\ calls.th[1].pc = "done"
    /\ calls.th[1].result.ok
    /\ calls.th[2].pc \in {"extract", "entities", "validate"}
    /\ calls.th[2].text # calls.th[1].text

\* line (not yet stripped) is a header line for the configured header h
IsHeaderLine(line, h) == header_match(Strip(line), <<h>>)

IsAnyHeaderLine(line, cfg) == header_match(Strip(line), cfg)

\* the text with every header line replaced by the configured header itself
Canonical(text, cfg) ==
    [i \in DOMAIN text |->
        IF IsAnyHeaderLine(text[i], cfg)
        THEN <<CHOOSE h \in SeqRange(cfg) : IsHeaderLine(text[i], h)>>
        ELSE text[i]]

\* C12: a header line is recognized whatever its letter case and its body is
\* stored under the configured header: the keys of the section map are
\* exactly the configured headers, and the fields extracted from a text are
\* those extracted from the same text with its headers spelled as configured
C12_HeaderCaseInsensitive ==
    /\ calc.op = "split_into_sections"
          => DOMAIN calc.out.map = SeqRange(calc.cfg)
    /\ calc.op = "ExtractAll"
          => calc.out = ExtractAll(Canonical(calc.arg, calc.cfg), calc.cfg)

\* line i of text is a header line and a body line follows it before the
\* next header line
BodyAfter(text, i, cfg) ==
    \E j \in (i + 1)..Len(text) :
        /\ Strip(text[j]) # <<>>
        /\ \A k \in (i + 1)..j : ~IsAnyHeaderLine(text[k], cfg)

\* header h does not occur in text, or only with no lines after it
NoBody(text, h, cfg) ==
    \A i \in DOMAIN text : IsHeaderLine(text[i], h) => ~BodyAfter(text, i, cfg)

\* C13: the map returned by split_into_sections has every configured header
\* as a key, and a header that does not occur in the text, or occurs with no
\* lines after it, maps to the empty string
C13_EveryHeaderPresent ==
    calc.op = "split_into_sections" =>
        \A h \in SeqRange(calc.cfg) :
            /\ h \in DOMAIN calc.out.map
            /\ NoBody(calc.arg, h, calc.cfg) => calc.out.map[h] = <<>>

\* a text in which one header has a body, another occurs without one and a
\* third does not occur
C13_Witness ==
    /\ calc.op = "split_into_sections"
    /\ calc.cfg = section_headers
    /\ calc.out.map[REQUESTING_PARTY] # <<>>
    /\ \E i \in DOMAIN calc.arg : IsHeaderLine(calc.arg[i], ATTACHMENTS)
    /\ NoBody(calc.arg, ATTACHMENTS, calc.cfg)
    /\ calc.out.map[ATTACHMENTS] = <<>>
    /\ \A i \in DOMAIN calc.arg : ~IsHeaderLine(calc.arg[i], INSURED_INFORMATION)
    /\ calc.out.map[INSURED_INFORMATION] = <<>>

\* the section an extractor fills, or None
SectionOf(op) ==
    CASE op = "extract_requesting_party"       -> REQUESTING_PARTY
      [] op = "extract_assignment_information" -> ASSIGNMENT_INFORMATION
      [] OTHER                                 -> None

\* the fields whose rule has a normalizer
NormalizedFields == {DATE_OF_LOSS, RESIDENCE_OCCUPIED_DURING_LOSS, WAS_SOMEONE_HOME}

\* the value the extractor gave field key
FieldValue(key) == calc.out[SectionOf(calc.op)].v[key].v

Trimmed(m) == Strip(m.g1)

PrimaryMatch(key)  == Search(patterns(SectionOf(calc.op), key), calc.arg)
FallbackMatch(key) == Search(additional_patterns(SectionOf(calc.op), key), calc.arg)
HasFallback(key)   == key \in additional_fields(SectionOf(calc.op))

\* the cascade as stated: primary capture, else fallback capture, else N/A,
\* an empty capture giving N/A
StatedCascade(key) ==
    IF PrimaryMatch(key).found
    THEN (IF Trimmed(PrimaryMatch(key)) = <<>> THEN NA
          ELSE Trimmed(PrimaryMatch(key)))
    ELSE IF HasFallback(key) /\ FallbackMatch(key).found
    THEN (IF Trimmed(FallbackMatch(key)) = <<>> THEN NA
          ELSE Trimmed(FallbackMatch(key)))
    ELSE NA

\* C14 as stated: every field without a normalizer holds the trimmed capture
\* of the primary pattern when it matches, else that of the fallback pattern
\* when one is configured and matches, else N/A; an empty capture gives N/A
C14_PrimaryThenFallback ==
    SectionOf(calc.op) # None =>
        \A key \in SchemaFields[SectionOf(calc.op)] \ NormalizedFields :
            FieldValue(key) = StatedCascade(key)

\* the normalizer of a field rule
Normalizer(key, value) ==
    IF key = DATE_OF_LOSS THEN parse_date(value)
    ELSE IF key \in {RESIDENCE_OCCUPIED_DURING_LOSS, WAS_SOMEONE_HOME}
    THEN Capitalize(value)
    ELSE value

\* the fallback pattern is also tried when the primary capture is empty, in
\* the one section whose extractor does so
FallbackTried(key) ==
    /\ HasFallback(key)
    /\ ~PrimaryMatch(key).found \/ SectionOf(calc.op) = REQUESTING_PARTY

ActualCascade(key) ==
    IF PrimaryMatch(key).found /\ Trimmed(PrimaryMatch(key)) # <<>>
    THEN Normalizer(key, Trimmed(PrimaryMatch(key)))
    ELSE IF /\ FallbackTried(key)
            /\ FallbackMatch(key).found
            /\ Trimmed(FallbackMatch(key)) # <<>>
    THEN Normalizer(key, Trimmed(FallbackMatch(key)))
    ELSE NA

\* C14 (amended): a field holds the normalized trimmed capture of the primary
\* pattern when it matches with a capture that is not empty; else that of
\* the fallback pattern when one is configured, is tried and matches with a
\* capture that is not empty; else N/A.  Each value depends on the field and
\* the section text only
C14_FallbackAlsoOnEmptyCapture ==
    SectionOf(calc.op) # None =>
        \A key \in SchemaFields[SectionOf(calc.op)] :
            FieldValue(key) = ActualCascade(key)

\* a section in which one field comes from its primary pattern, one from its
\* fallback pattern after an empty primary capture, and one is N/A
C14_Witness ==
    /\ calc.op = "extract_requesting_party"
    /\ PrimaryMatch("Insurance Company").found
    /\ FieldValue("Insurance Company") # NA
    /\ PrimaryMatch(CARRIER_CLAIM_NUMBER).found
    /\ Trimmed(PrimaryMatch(CARRIER_CLAIM_NUMBER)) = <<>>
    /\ FieldValue(CARRIER_CLAIM_NUMBER) # NA
    /\ FieldValue("Handler") = NA

\* the entries of the model that have the shape of a URL
UrlShaped(a) == a = <<"http://x.com/f">>

\* the non-empty trimmed tokens of the captured attachment text that end in
\* a configured extension or have the shape of a URL, in order
ValidTokens(text) ==
    IF ~Search(patterns(ATTACHMENTS, ATTACHMENTS), text).found THEN <<>>
    ELSE SelectSeq(
             Candidates(Strip(Search(patterns(ATTACHMENTS, ATTACHMENTS), text).g1)),
             LAMBDA a : is_valid_attachment(a) \/ UrlShaped(a))

\* C15: extract_attachments returns, in order, exactly the tokens of the
\* attachment text that are valid file names or URLs; an invalid token is
\* dropped and the others are kept
C15_EachTokenJudgedAlone ==
    calc.op = "extract_attachments" =>
        /\ ~calc.out.raised
        /\ calc.out.data[ATTACHMENTS].v =
               [i \in DOMAIN ValidTokens(calc.arg) |-> JStr(ValidTokens(calc.arg)[i])]

\* the value reported for a yes/no field
YesNoOut(key) == calc.out[ASSIGNMENT_INFORMATION].v[key].v

\* C16: the value of a yes/no field is "Yes" exactly when the text after the
\* label is a token of the configured positive set, "No" exactly when it is
\* a token of the negative set, and "N/A" for every other token
C16_YesNoByConfiguredSets ==
    calc.op = "yes_no" =>
        \A key \in YesNoFields, value \in YesNoValues :
            calc.arg = YesNoLine(key, value) =>
                YesNoOut(key) = parse_boolean(value)

\* the symbols of s that are digits, in order
OnlyDigits(s) == SelectSeq(s, LAMBDA c : c \in Digits)

\* s is '(XXX) XXX-XXXX' over the ten digits d
TenDigitShape(s, d) ==
    /\ Len(s) = 14
    /\ s[1] = "(" /\ s[5] = ")" /\ s[6] = " " /\ s[10] = "-"
    /\ OnlyDigits(s) = d

\* s is '+1 (XXX) XXX-XXXX' over the eleven digits d
ElevenDigitShape(s, d) ==
    /\ Len(s) = 17
    /\ SubSeq(s, 1, 4) = <<"+", "1", " ", "(">>
    /\ s[8] = ")" /\ s[9] = " " /\ s[13] = "-"
    /\ OnlyDigits(s) = d

PhoneFormatted(phone, out) ==
    IF Len(OnlyDigits(phone)) = 10 THEN TenDigitShape(out, OnlyDigits(phone))
    ELSE IF Len(OnlyDigits(phone)) = 11 /\ OnlyDigits(phone)[1] = "1"
    THEN ElevenDigitShape(out, OnlyDigits(phone))
    ELSE out = phone

\* C17: format_phone_number gives '(XXX) XXX-XXXX' for ten digits,
\* '+1 (XXX) XXX-XXXX' for eleven digits that start with 1, and the input
\* as written otherwise; 'Adjuster Phone Number: 5551234567' yields
\* '(555) 123-4567'
C17_PhoneFormat ==
    /\ calc.op = "format_phone_number" => PhoneFormatted(calc.arg, calc.out)
    /\ (/\ calc.op = "extract_adjuster_information"
        /\ calc.arg = PhoneLine(<<"5", "5", "5", "1", "2", "3", "4", "5", "6", "7">>))
       => calc.out[ADJUSTER_INFORMATION].v[ADJUSTER_PHONE_NUMBER].v
              = <<"(", "5", "5", "5", ")", " ", "1", "2", "3", "-",
                  "4", "5", "6", "7">>

C17_Witness ==
    /\ calc.op = "format_phone_number"
    /\ Len(OnlyDigits(calc.arg)) = 11
    /\ calc.arg[1] = "1"
    /\ calc.out # calc.arg

\* the formats of the configured list that parse date_str
ParsingFormats(date_str) ==
    {i \in DOMAIN date_formats : strptime(date_str, date_formats[i]).ok}

\* the date t written as YYYY-MM-DD
YearMonthDay(t) ==
    ToDigits(t.y, 4) \o <<"-">> \o ToDigits(t.m, 2) \o <<"-">> \o ToDigits(t.d, 2)

\* the date of the first configured format that parses date_str as
\* YYYY-MM-DD, or date_str itself when no format parses it
FirstParsingFormat(date_str) ==
    IF ParsingFormats(date_str) = {} THEN date_str
    ELSE YearMonthDay(strptime(date_str,
                               date_formats[MinOf(ParsingFormats(date_str))]))

\* C18: parse_date returns the date of the first configured format that
\* parses the string, written as YYYY-MM-DD ('03/14/2023' gives
\* '2023-03-14'), and the string unchanged when no format parses it
C18_FirstFormatAsYearMonthDay ==
    calc.op = "parse_date" => calc.out = FirstParsingFormat(calc.arg)

\* C19: normalizing a normalized value again changes nothing: parse_date of
\* a result of parse_date, format_phone_number of a result of
\* format_phone_number, and the yes/no handling (of the deployed parser and
\* parse_boolean of the draft) of a reported yes/no value
C19_NormalizersIdempotent ==
    /\ calc.op = "parse_date" => parse_date(calc.out) = calc.out
    /\ calc.op = "format_phone_number" =>
           format_phone_number(calc.out) = calc.out
    /\ calc.op = "yes_no" =>
           \A key \in YesNoFields :
               /\ YesNoOut(key) \in {<<"Yes">>, <<"No">>, NA}
               /\ AssignmentNormalize(key, YesNoOut(key)) = YesNoOut(key)
               /\ parse_boolean(YesNoOut(key)) = YesNoOut(key)

C19_Witness ==
    /\ calc.op = "parse_date"
    /\ calc.out # calc.arg
    /\ parse_date(calc.out) = calc.out

\* the value reported for a flag of "Assignment Type"
Flag(key) == calc.out[ASSIGNMENT_TYPE].v[key]

\* "[", optional white space, x or X, optional white space, "]" from
\* position i of text
CheckedBoxAt(text, i) ==
    \E j \in (i + 1)..Len(text), k \in (i + 2)..Len(text) :
        /\ i >= 1 /\ text[i] = "["
        /\ j < k
        /\ \A n \in (i + 1)..(j - 1) : text[n] \in WS
        /\ text[j] \in {"x", "X"}
        /\ \A n \in (j + 1)..(k - 1) : text[n] \in WS
        /\ text[k] = "]"

\* text contains '<Label> [x]': the label as written, one blank, the box
ContainsLabelBox(text, label) ==
    \E i \in DOMAIN text :
        /\ text[i] = label
        /\ i + 1 <= Len(text) /\ text[i + 1] = " "
        /\ CheckedBoxAt(text, i + 2)

\* C20 as stated: a flag is true exactly when the text contains
\* '<Label> [x]' (x in either case, optional spaces inside the brackets)
C20_FlagIffLabelBox ==
    calc.op = "extract_assignment_type" =>
        \A key \in SchemaFlags :
            /\ Flag(key).t = "boolean"
            /\ Flag(key).v <=> ContainsLabelBox(calc.arg, key)

\* a word of text ends, in any letter case, with the label
EndsWithLabel(tok, label) ==
    \/ Lower(tok) = Lower(label)
    \/ Lower(tok) = "downwind" /\ Lower(label) = "wind"

\* text contains the label in any letter case, also at the end of a longer
\* word, then any white space (none, blanks, line breaks), then the box
ContainsLabelThenBox(text, label) ==
    \E i \in DOMAIN text, b \in DOMAIN text :
        /\ EndsWithLabel(text[i], label)
        /\ i < b
        /\ \A n \in (i + 1)..(b - 1) : text[n] \in WS
        /\ CheckedBoxAt(text, b)

\* C20: each of Wind, Structural, Hail, Foundation is a boolean, true
\* exactly when the text contains the label in any letter case followed by
\* optional white space and a box holding x or X; 'Wind [X]' with
\* 'Hail [ ]' gives Wind true and Hail false
C20_FlagIffLabelThenBox ==
    calc.op = "extract_assignment_type" =>
        \A key \in SchemaFlags :
            /\ Flag(key).t = "boolean"
            /\ Flag(key).v <=> ContainsLabelThenBox(calc.arg, key)

C20_Witness ==
    /\ calc.op = "extract_assignment_type"
    /\ calc.arg = <<"Wind", " ", "[", "X", "]", "\n", "Hail", " ", "[", " ", "]">>
    /\ Flag("Wind") = JBool(TRUE)
    /\ Flag("Hail") = JBool(FALSE)

\* the "Other" entry of the result
OtherEntry == calc.out[ASSIGNMENT_TYPE].v["Other"].v

\* the text after "- provide details:" when that follows the checked box
DetailsAfterBox(text) ==
    Strip(Search(patterns(ASSIGNMENT_TYPE, "Other"), text).g2)

\* C21: Other is Checked exactly when the text has the checked box
\* 'Other [x]'; Details is the trimmed details text when the box is checked
\* and details follow it, and "N/A" otherwise
C21_OtherCheckedWithOrWithoutDetails ==
    calc.op = "extract_assignment_type" =>
        /\ OtherEntry["Checked"] = JBool(ContainsLabelThenBox(calc.arg, "Other"))
        /\ OtherEntry["Details"] =
               JStr(IF ContainsLabelThenBox(calc.arg, "Other")
                       /\ DetailsAfterBox(calc.arg) # <<>>
                    THEN DetailsAfterBox(calc.arg) ELSE NA)

\* the fields of "Requesting Party" whose extraction raises for the text
Raising(text, ungrouped) ==
    {key \in ungrouped :
        Search(patterns(REQUESTING_PARTY, key),
               split_into_sections(text, section_headers).map[REQUESTING_PARTY]).found}

\* C22: when the extraction of a field raises, that field is "N/A", the
\* other fields of its section have the values extracted for them, and the
\* other sections are extracted as without the error
C22_ErrorDegradesOneField ==
    calc.op = "ExtractAllUngrouped" =>
        /\ \A key \in SchemaFields[REQUESTING_PARTY] :
               calc.out[REQUESTING_PARTY].v[key] =
                   IF key \in Raising(calc.arg.text, calc.arg.ungrouped)
                   THEN JStr(NA)
                   ELSE ExtractAll(calc.arg.text, section_headers)[REQUESTING_PARTY].v[key]
        /\ \A section \in DOMAIN calc.out \ {REQUESTING_PARTY} :
               calc.out[section] =
                   ExtractAll(calc.arg.text, section_headers)[section]

\* the call of thread t has finished and its NER collaborator raised
NerRaisedIn(t) == calls.th[t].pc = "done" /\ calls.th[t].ner.raised

\* what the call of thread t returns or raises when its NER collaborator
\* finds no entities
WithNoEntities(t) ==
    IF instance = "RuleBasedParser"
    THEN RuleBasedParser_parse(calls.th[t].text, headers,
                               [raised |-> FALSE, ents |-> <<>>])
    ELSE HybridParser_parse(calls.th[t].text, headers,
                            [raised |-> FALSE, ents |-> <<>>],
                            calls.th[t].tr, calls.th[t].score)

\* C23: a parse whose entity extractor raised ends as the same parse with
\* an extractor that finds no entities: it returns the same record, whose
\* Entities is the empty mapping
C23_NerFailureNotFatal ==
    \A t \in Threads :
        NerRaisedIn(t) =>
            /\ calls.th[t].result = WithNoEntities(t)
            /\ calls.th[t].result.ok =>
                   calls.th[t].result.record.v["Entities"] = JObj(EmptyDict)

\* the lines of text trimmed, without the blank ones
TrimmedLines(text) == SelectSeq([i \in DOMAIN text |-> Strip(text[i])],
                                LAMBDA line : line # <<>>)

\* the positions in kept of the header lines that spell header key
HeaderPositions(kept, key, cfg) ==
    {i \in DOMAIN kept : header_match(kept[i], cfg) /\ kept[i][1] = key}

\* the lines of kept after position i up to the next header line or the
\* end, joined by newline
LinesUntilNextHeader(kept, i, cfg) ==
    LET next == MinOf({j \in (i + 1)..Len(kept) : header_match(kept[j], cfg)}
                      \cup {Len(kept) + 1})
    IN  Join(SubSeq(kept, i + 1, next - 1))

\* C24: split_into_sections trims the lines and drops the blank ones; the
\* body of a header that occurs in the text is the lines between its last
\* header line and the next header line or the end, joined by newline, so
\* lines before the first header line are in no body and an earlier body
\* of a repeated header is not kept
C24_BodyAfterLastOccurrence ==
    calc.op = "split_into_sections" =>
        \A key \in DOMAIN calc.out.map :
            calc.out.map[key] =
                IF HeaderPositions(TrimmedLines(calc.arg), key, calc.cfg) = {}
                THEN <<>>
                ELSE LinesUntilNextHeader(
                         TrimmedLines(calc.arg),
                         MaxOf(HeaderPositions(TrimmedLines(calc.arg), key, calc.cfg)),
                         calc.cfg)

\* a header with a padded body line, and the same header again, padded, with
\* another body
C24_Witness ==
    /\ calc.op = "split_into_sections"
    /\ calc.arg = <<<<REQUESTING_PARTY>>, <<" ", "Bob", " ">>,
                    <<" ", REQUESTING_PARTY, ":", " ">>, <<"a.pdf">>>>
    /\ calc.out.map[REQUESTING_PARTY] = <<"a.pdf">>

\* the value the claim gives a fuzzy field: the best known value when the
\* field holds "N/A" and the best score is above the threshold
FuzzyWritten(value, field, score) ==
    IF /\ value = JStr(NA)
       /\ BestMatch(known_values(field), score) # None
       /\ score[BestMatch(known_values(field), score)] > FuzzyThreshold
    THEN JStr(<<BestMatch(known_values(field), score)>>)
    ELSE value

FuzzyExpected(section, score) ==
    [f \in DOMAIN section |->
        IF f \in SeqRange(fuzzy_match_fields_config)
        THEN FuzzyWritten(section[f], f, score)
        ELSE section[f]]

\* C25: fuzzy_match_fields gives every configured fuzzy field of the parsed
\* record that holds "N/A" the first known value of highest score when that
\* score is above 80, and leaves every other field as it was
C25_FuzzyFieldsOfTheRecord ==
    calc.op = "fuzzy_match_fields" =>
        /\ DOMAIN calc.out = DOMAIN calc.arg.parsed_data
        /\ \A S \in DOMAIN calc.out :
              IF calc.arg.parsed_data[S].t = "object"
              THEN calc.out[S] =
                       JObj(FuzzyExpected(calc.arg.parsed_data[S].v, calc.arg.score))
              ELSE calc.out[S] = calc.arg.parsed_data[S]

\* C26: with the default rule, a parsed record whose Adjuster Email is
\* "N/A" leaves apply_rules with "unknown@example.com" as the Adjuster
\* Email of Adjuster Information
C26_DefaultRuleFillsAdjusterEmail ==
    (/\ calc.op = "apply_rules"
     /\ ADJUSTER_INFORMATION \in DOMAIN calc.arg
     /\ calc.arg[ADJUSTER_INFORMATION].v[ADJUSTER_EMAIL] = JStr(NA))
    => calc.out[ADJUSTER_INFORMATION].v[ADJUSTER_EMAIL]
           = JStr(<<"unknown@example.com">>)

\* the response without its code fences
Unfenced(r) == SelectSeq(r, LAMBDA x : x \notin Fences)

\* "{" less "}" among the first k symbols of r from position i on
Depth(r, i, k) ==
    Cardinality({n \in i..k : r[n] = "{"}) - Cardinality({n \in i..k : r[n] = "}"})

FirstOpen(r) == MinOf({i \in DOMAIN r : r[i] = "{"})

\* the positions that close the first "{" of r
Matching(r) ==
    IF \A i \in DOMAIN r : r[i] # "{" THEN {}
    ELSE {j \in DOMAIN r : j > FirstOpen(r) /\ Depth(r, FirstOpen(r), j) = 0}

\* C27: _clean_response returns the response without its fences from the
\* first "{" to the "}" that matches it, whatever follows, and raises
\* ValueError when there is no such span
C27_FirstBalancedSpan ==
    calc.op = "clean_response" =>
        IF Matching(Unfenced(calc.arg)) = {}
        THEN calc.out.raised
        ELSE /\ ~calc.out.raised
             /\ calc.out.value =
                    SubSeq(Unfenced(calc.arg), FirstOpen(Unfenced(calc.arg)),
                           MinOf(Matching(Unfenced(calc.arg))))

\* C27, the part that holds: what follows the last "}" and what precedes
\* the first "{" is dropped, and a response without a "{" followed by a "}"
\* raises ValueError
C27_FirstOpenToLastClose ==
    calc.op = "clean_response" =>
        IF Matching(Unfenced(calc.arg)) = {}
           /\ ~\E i, j \in DOMAIN calc.arg :
                  i < j /\ calc.arg[i] = "{" /\ calc.arg[j] = "}"
        THEN calc.out.raised
        ELSE /\ ~calc.out.raised
             /\ calc.out.value =
                    SubSeq(Unfenced(calc.arg), FirstOpen(Unfenced(calc.arg)),
                           MaxOf({j \in DOMAIN Unfenced(calc.arg) :
                                     Unfenced(calc.arg)[j] = "}"}))

\* x has the keys and the types of y, level by level
RECURSIVE SameShape(_, _)
SameShape(x, y) ==
    /\ x.t = y.t
    /\ x.t = "object" =>
          /\ DOMAIN x.v = DOMAIN y.v
          /\ \A k \in DOMAIN x.v : SameShape(x.v[k], y.v[k])
    /\ x.t = "array" => \A i \in DOMAIN x.v : x.v[i].t = "string"

\* C28: the top-level keys of the template of the prompt are the keys the
\* schema requires, and a value that fills in the template key for key
\* satisfies the schema
C28_FilledTemplateIsValid ==
    (calc.op = "validate_json" /\ SameShape(calc.arg, JObj(TemplateRecord)))
    => /\ DOMAIN calc.arg.v = SchemaRequired
       /\ calc.out

\* the fields of the section whose default pattern ends in (.*)
RestFields ==
    {key \in SchemaFields[SectionOf(calc.op)] :
        patterns(SectionOf(calc.op), key).kind = "rest"}

\* where the label of field key stands in the text with its colon: the
\* first symbol that ends with the label, in any letter case, and has ":"
\* after it
LabelHits(text, key) ==
    {i \in DOMAIN text :
        /\ Lower(key) \in LabelSuffixes(Lower(text[i]))
        /\ SkipWS(text, i + 1) <= Len(text)
        /\ text[SkipWS(text, i + 1)] = ":"}

\* the section text after the first "Label:" of field key
RestAfterLabel(text, key) ==
    SubSeq(text, SkipWS(text, MinOf(LabelHits(text, key)) + 1) + 1, Len(text))

\* the value is what follows the label, trimmed, when text follows it
HoldsRest(key) ==
    (/\ LabelHits(calc.arg, key) # {}
     /\ Strip(RestAfterLabel(calc.arg, key)) # <<>>)
    => FieldValue(key) = Strip(RestAfterLabel(calc.arg, key))

OneLine(s) == "\n" \notin SeqRange(s)

\* C29 as stated: a field whose pattern ends in (.*) holds all the section
\* text after its "Label:", trimmed, and only a field whose label is on the
\* last line of the section has a value of one line
C29_OneLineOnlyOnLastLine ==
    SectionOf(calc.op) # None =>
        \A key \in RestFields :
            /\ HoldsRest(key)
            /\ (LabelHits(calc.arg, key) # {} /\ OneLine(FieldValue(key)))
               => OneLine(RestAfterLabel(calc.arg, key))

\* C29 (amended): a field whose pattern ends in (.*) holds all the section
\* text after its "Label:", trimmed, later lines included; its value has one
\* line only when a single line of text follows the label, its own line or,
\* when that is blank after the colon, the one line after it
C29_RestOfSectionTrimmed ==
    SectionOf(calc.op) # None =>
        \A key \in RestFields :
            /\ HoldsRest(key)
            /\ (LabelHits(calc.arg, key) # {} /\ OneLine(FieldValue(key)))
               => OneLine(Strip(RestAfterLabel(calc.arg, key)))

\* the value of Handler runs over the line of a later field
C29_Witness ==
    /\ calc.op = "extract_requesting_party"
    /\ calc.arg = Join(<<<<"Handler", ":", " ", "Bob", " ">>,
                         <<"Insurance Company", ":", " ", "Acme">>>>)
    /\ FieldValue("Handler") =
           <<"Bob", " ", "\n", "Insurance Company", ":", " ", "Acme">>
    /\ FieldValue("Insurance Company") = <<"Acme">>

\* the body of the "Attachment(s)" section of the parsed email: the lines
\* after its last header line up to the next header line
AttachmentsBody ==
    LET kept == TrimmedLines(email_content)
        at   == HeaderPositions(kept, ATTACHMENTS, section_headers)
    IN  IF at = {} THEN <<>>
        ELSE LinesUntilNextHeader(kept, MaxOf(at), section_headers)

\* the body has the label "Attachment(s):" with something after it
LabelledList(body) ==
    \E k \in DOMAIN body :
        /\ Lower(body[k]) = Lower(ATTACHMENTS)
        /\ SkipWS(body, k + 1) <= Len(body)
        /\ body[SkipWS(body, k + 1)] = ":"
        /\ Strip(SubSeq(body, SkipWS(body, k + 1) + 1, Len(body))) # <<>>

ReturnedByRuleBasedParser ==
    /\ pc = "succeeded"
    /\ instance = "RuleBasedParser"
    /\ headers = section_headers
    /\ result.ok

\* C30: in a record returned by RuleBasedParser.parse under the default
\* configuration, Attachment(s) is not empty only if the body of the
\* "Attachment(s)" section has the label "Attachment(s):" with text after
\* it; names listed under the header line, and a line "Attachment(s): a.pdf"
\* without a header line before it, give the empty list
C30_AttachmentsNeedLabelInBody ==
    ReturnedByRuleBasedParser =>
        /\ result.record.v[ATTACHMENTS].v # <<>> => LabelledList(AttachmentsBody)
        /\ email_content \in {<<<<ATTACHMENTS>>, <<"a.pdf">>>>,
                              <<<<ATTACHMENTS, ":", " ", "a.pdf">>>>}
           => result.record.v[ATTACHMENTS].v = <<>>

\* a header line, then the labelled list: the one way to a list that is not
\* empty
C30_Witness ==
    /\ ReturnedByRuleBasedParser
    /\ email_content = <<<<ATTACHMENTS>>, <<ATTACHMENTS, ":", " ", "a.pdf">>>>
    /\ result.record.v[ATTACHMENTS] = JArr(<<JStr(<<"a.pdf">>)>>)

\* names listed under the header line are parsed into the empty list
C30_WitnessBareNames ==
    /\ ReturnedByRuleBasedParser
    /\ email_content = <<<<ATTACHMENTS>>, <<"a.pdf">>>>
    /\ result.record.v[ATTACHMENTS] = JArr(<<>>)

====
